---- MODULE Spec2Model ----
(***************************************************************************)
(* The scanner sidecar supervisor (scanner/lifecycle.ts) and the scan      *)
(* client (scanner/client.ts) as a state machine.                          *)
(*                                                                         *)
(* Node runs JavaScript on one thread: the code between two awaits is one  *)
(* atomic step.  Every action below is one such run-to-await segment.  The *)
(* continuations of all callers awaiting the same promise run back to back *)
(* in the microtask queue when it settles, with no event-loop callback     *)
(* (child exit, fetch completion) in between, so the end of a startup      *)
(* attempt releases its initiator and its waiters in one step.             *)
(***************************************************************************)
EXTENDS Integers, FiniteSets, Sequences, TLC

\* Number of ensureScannerApi / runSkillScanner invocations explored.
MaxCalls == 3

Calls == 1..MaxCalls

\* A child process is named after the call that spawned it.
NoChild == [st |-> "none", killed |-> FALSE, tk |-> FALSE]

VARIABLES
  external,            \* SKILL_SCANNER_API_URL is set
  managedApiProcess,   \* 0 = null, else the held child
  managedApiReady,
  managedApiStarting,  \* 0 = null, else the promise of that call's attempt
  promise,             \* promise[c]: state of the attempt promise made by c
  child,               \* child[c]: the ChildProcess spawned by call c
  pc,                  \* pc[c]: where call c is suspended
  ret,                 \* ret[c]: value ensureScannerApi resolved to
  awaiting,            \* awaiting[c]: promise a waiter is suspended on
  hostExited,          \* the host's "exit" event has run
  \* ---- history (observation only, never read by an action's code) ----
  beganIdle,           \* c began in managed mode with no process running and
                       \* no attempt in flight, and is still in its port check
  beganStarting,       \* pending attempt held by managedApiStarting at begin
  peers,               \* the idle-begun calls in their port check when c
                       \* began idle (emptied when c's port check passes)
  checked,             \* the process c re-checks in step 2 (0 once it passed)
  hc,                  \* result of c's own latest health check
  taskkillResult       \* what the win32 branch of shutdownManagedApi met

\* ---- scanner/types.ts: one use of uniqueAnalyzers ----
VARIABLES
  uaPc,                \* "idle", "returned", "reapplied"
  values,              \* the strings passed to uniqueAnalyzers
  analyzers            \* the AnalyzerName[] it returned

\* ---- scanner/client.ts: one call of runSkillScanner ----
VARIABLES
  scanPc,              \* the await the call is suspended at
  apiUrl,              \* what ensureScannerApi resolved to
  zipBuilt,            \* buildZipBuffer was called
  uploaded,            \* the scan-upload request was issued
  response,            \* the Response fetch resolved to
  aborted,             \* the request timer fired controller.abort()
  scanResult           \* the ScanResult returned

\* ---- scanner/uv-resolver.ts and the launch of step 5 ----
VARIABLES
  resPc,               \* "idle", "resolved" or "started"
  processEnv,          \* the environment the launcher is looked up in
  launcher,            \* what resolveScannerLauncher returned
  spawnCall            \* the spawn() call of ensureScannerApi's step 5

\* ---- formatters.ts: one call of formatReadSkillResponse ----
VARIABLES
  formatPc,            \* "idle" or "returned"
  formatArgs,          \* scanResult, enableScan and scanNote as passed
  formatted            \* what the returned text contains

\* ---- zip.ts: one call of buildZipBuffer ----
VARIABLES
  zipPc,               \* "idle", "returned" or "threw"
  files,               \* the Map passed, in insertion order
  archive              \* the Buffer returned

\* ---- scanner/client.ts: the upload request of runSkillScannerApi ----
VARIABLES
  uploadPc,            \* "idle", "fetching" or "threw"
  llmEnv,              \* SKILL_SCANNER_LLM_API_KEY, _MODEL and _PROVIDER
  skillFiles,          \* the Map passed to runSkillScannerApi
  request              \* the request handed to fetch

\* ---- scanner/lifecycle.ts: one call of isApiHealthy ----
VARIABLES
  healthPc,            \* "idle", "fetching", "returned" or "threw"
  checkUrl,            \* the apiUrl passed to isApiHealthy
  fetchUrl,            \* the URL handed to fetch
  settled,             \* how the fetch promise settled
  elapsedMs,           \* time since the call
  timeoutId,           \* the abort timer: "unset", "armed", "fired", "cleared"
  healthy              \* what isApiHealthy resolved to

\* ---- zip.ts: one call of crc32 ----
VARIABLES
  crcPc,               \* "idle" or "returned"
  crcInput,            \* the Buffer passed
  crcValue             \* the number returned

lifecycle == <<external, managedApiProcess, managedApiReady,
               managedApiStarting, promise, child, pc, ret, awaiting,
               hostExited, beganIdle, beganStarting, peers, checked, hc,
               taskkillResult>>
analyzerVars == <<uaPc, values, analyzers>>
clientVars == <<scanPc, apiUrl, zipBuilt, uploaded, response, aborted,
                scanResult>>

\* What the code of each part never touches.
resolverVars == <<resPc, processEnv, launcher, spawnCall>>
formatVars == <<formatPc, formatArgs, formatted>>
zipVars == <<zipPc, files, archive>>
uploadVars == <<uploadPc, llmEnv, skillFiles, request>>
healthVars == <<healthPc, checkUrl, fetchUrl, settled, elapsedMs, timeoutId,
                healthy>>
crcVars == <<crcPc, crcInput, crcValue>>
beyondLifecycle == <<analyzerVars, clientVars, resolverVars, formatVars,
                     zipVars, uploadVars, healthVars, crcVars>>
beyondAnalyzers == <<lifecycle, clientVars, resolverVars, formatVars, zipVars,
                     uploadVars, healthVars, crcVars>>
beyondClient == <<lifecycle, analyzerVars, resolverVars, formatVars, zipVars,
                  uploadVars, healthVars, crcVars>>
beyondResolver == <<lifecycle, analyzerVars, clientVars, formatVars, zipVars,
                    uploadVars, healthVars, crcVars>>
beyondFormat == <<lifecycle, analyzerVars, clientVars, resolverVars, zipVars,
                  uploadVars, healthVars, crcVars>>
beyondZip == <<lifecycle, analyzerVars, clientVars, resolverVars, formatVars,
               uploadVars, healthVars, crcVars>>
beyondUpload == <<lifecycle, analyzerVars, clientVars, resolverVars,
                  formatVars, zipVars, healthVars, crcVars>>
beyondHealth == <<lifecycle, analyzerVars, clientVars, resolverVars,
                  formatVars, zipVars, uploadVars, crcVars>>
beyondCrc == <<lifecycle, analyzerVars, clientVars, resolverVars, formatVars,
               zipVars, uploadVars, healthVars>>

vars == <<lifecycle, analyzerVars, clientVars, resolverVars, formatVars,
          zipVars, uploadVars, healthVars, crcVars>>

config == <<external>>
hist == <<beganIdle, beganStarting, peers, checked, hc>>

\* No call of ensureScannerApi exists: no frame, nothing observed of one.
NoCalls ==
  /\ pc = [c \in Calls |-> "idle"]
  /\ ret = [c \in Calls |-> "none"]
  /\ awaiting = [c \in Calls |-> 0]
  /\ beganIdle = [c \in Calls |-> FALSE]
  /\ beganStarting = [c \in Calls |-> 0]
  /\ peers = [c \in Calls |-> {}]
  /\ checked = [c \in Calls |-> 0]
  /\ hc = [c \in Calls |-> "none"]

\* uniqueAnalyzers has not been called.
AnalyzerIdle ==
  /\ uaPc = "idle"
  /\ values = <<>>
  /\ analyzers = <<>>

\* An absent error, an absent Response and a ScanResult not yet returned.
NoError == [kind |-> "absent", status |-> 0, body |-> ""]
NoJson == [kind |-> "none", is_safe |-> "missing", hasFindings |-> FALSE,
           findings |-> <<>>, findings_count |-> -1,
           hasAnalyzers |-> FALSE, analyzers_used |-> <<>>]
NoResponse == [ok |-> FALSE, status |-> 0, text |-> "", json |-> NoJson]
NoResult == [available |-> FALSE, status |-> "absent", error |-> NoError,
             totalFindings |-> -1, analyzersUsed |-> <<>>]

\* runSkillScanner has not been called.
ClientIdle ==
  /\ scanPc = "idle"
  /\ apiUrl = "unset"
  /\ zipBuilt = FALSE
  /\ uploaded = FALSE
  /\ response = NoResponse
  /\ aborted = FALSE
  /\ scanResult = NoResult

\* A launcher candidate: the command looked for and where the path points.
Candidate(cmd, at) == [cmd |-> cmd, at |-> at]
\* One command's overrides and look-ups in an environment with nothing set.
NoSearch == [override |-> "unset", pathHits |-> <<>>, lookup |-> <<>>]
NoEnv == [uvx |-> NoSearch, uv |-> NoSearch, win32Profile |-> FALSE,
          localBinExists |-> FALSE, passing |-> {}]
\* null, as a ScannerLauncher and as a spawn() call that was not made.
NoLauncher == [found |-> FALSE, command |-> Candidate("none", "none"),
               preArgs |-> <<>>]
NoSpawn == [called |-> FALSE, command |-> Candidate("none", "none"),
            args |-> <<>>, shell |-> FALSE]

\* Neither the resolver nor step 5 has run.
ResolverIdle ==
  /\ resPc = "idle"
  /\ processEnv = NoEnv
  /\ launcher = NoLauncher
  /\ spawnCall = NoSpawn

\* A ScanResult as the formatter reads it: the findings by their analyzer
\* member, the severity set or not.
NoFormatResult ==
  [available |-> FALSE, status |-> "absent", error |-> "absent",
   totalFindings |-> -1, findings |-> <<>>, analyzersUsed |-> <<>>,
   maxSeverity |-> ""]
NoFormatArgs == [hasScanResult |-> FALSE, scanResult |-> NoFormatResult,
                 enableScan |-> "undefined", scanNote |-> FALSE]
NoText == [sections |-> {}, status |-> "", analyzersRan |-> <<>>,
           staticFindingsCount |-> 0, behavioralFindingsCount |-> 0]

\* formatReadSkillResponse has not been called.
FormatIdle ==
  /\ formatPc = "idle"
  /\ formatArgs = NoFormatArgs
  /\ formatted = NoText

\* buildZipBuffer has not been called.
ZipIdle ==
  /\ zipPc = "idle"
  /\ files = <<>>
  /\ archive = <<>>

NoLlmEnv == [key |-> <<>>, model |-> <<>>, provider |-> <<>>]
NoRequest == [method |-> "", path |-> "", query |-> <<>>,
              contentType |-> "", body |-> <<>>]

\* runSkillScannerApi has not been called.
UploadIdle ==
  /\ uploadPc = "idle"
  /\ llmEnv = NoLlmEnv
  /\ skillFiles = <<>>
  /\ request = NoRequest

NotSettled == [kind |-> "pending", status |-> 0]

\* isApiHealthy has not been called.
HealthIdle ==
  /\ healthPc = "idle"
  /\ checkUrl = <<>>
  /\ fetchUrl = <<>>
  /\ settled = NotSettled
  /\ elapsedMs = 0
  /\ timeoutId = "unset"
  /\ healthy = "none"

\* crc32 has not been called.
CrcIdle ==
  /\ crcPc = "idle"
  /\ crcInput = <<>>
  /\ crcValue = <<>>

\* The supervisor in the state its module initialisers leave, in managed mode.
LifecycleIdle ==
  /\ external = FALSE
  /\ managedApiProcess = 0
  /\ managedApiReady = FALSE
  /\ managedApiStarting = 0
  /\ promise = [c \in Calls |-> "none"]
  /\ child = [c \in Calls |-> NoChild]
  /\ hostExited = FALSE
  /\ taskkillResult = "none"
  /\ NoCalls

Init ==
  /\ AnalyzerIdle
  /\ ClientIdle
  /\ ResolverIdle
  /\ FormatIdle
  /\ ZipIdle
  /\ UploadIdle
  /\ HealthIdle
  /\ CrcIdle
  /\ external \in BOOLEAN
  /\ managedApiProcess = 0
  /\ managedApiReady = FALSE
  /\ managedApiStarting = 0
  /\ promise = [c \in Calls |-> "none"]
  /\ child = [c \in Calls |-> NoChild]
  /\ hostExited = FALSE
  /\ taskkillResult = "none"
  /\ NoCalls

(***************************************************************************)
(* ChildProcess: kill() delivers the signal and sets .killed only while    *)
(* the process has not exited.                                             *)
(***************************************************************************)
Kill(ch, p) ==
  IF p # 0 /\ ch[p].st = "running" THEN [ch EXCEPT ![p].killed = TRUE] ELSE ch

\* Step 2's guard: the held process is believed ready and still running.
Reusable ==
  /\ managedApiReady
  /\ managedApiProcess # 0
  /\ ~child[managedApiProcess].killed
  /\ child[managedApiProcess].st = "running"

\* The calls in DOMAIN rf return rf[c] from ensureScannerApi.
Returns(rf) ==
  /\ pc' = [c \in Calls |-> IF c \in DOMAIN rf THEN "done" ELSE pc[c]]
  /\ ret' = [c \in Calls |-> IF c \in DOMAIN rf THEN rf[c] ELSE ret[c]]
  /\ awaiting' = [c \in Calls |-> IF c \in DOMAIN rf THEN 0 ELSE awaiting[c]]

\* Call c suspends at the await named newpc.
Suspend(c, newpc) ==
  /\ pc' = [pc EXCEPT ![c] = newpc]
  /\ UNCHANGED <<ret, awaiting>>

\* Call c suspends on the pending promise of attempt a.
Await(c, a) ==
  /\ pc' = [pc EXCEPT ![c] = "waitStart"]
  /\ awaiting' = [awaiting EXCEPT ![c] = a]
  /\ UNCHANGED ret

\* ensureScannerApi rejects with the exception.
Throws(c) ==
  /\ pc' = [pc EXCEPT ![c] = "threw"]
  /\ UNCHANGED <<ret, awaiting>>

\* WaiterValue decided by the ready flag alone.
WaiterValue_ReadyAlone(ok, ready) == IF ready THEN "managed" ELSE ""

\* What a caller awaiting the shared promise returns.
WaiterValue(ok, ready) == IF ok /\ ready THEN "managed" ELSE ""
\* What the initiator of an attempt returns.
InitiatorValue(ok) == IF ok THEN "managed" ELSE ""

(***************************************************************************)
(* Steps 3 and 4 of ensureScannerApi, entered with the ready flag as step  *)
(* 2 left it.  Awaiting an already settled promise resumes in the next     *)
(* microtask; awaiting a pending one suspends the call.                    *)
(***************************************************************************)
FromStep3(c, ready) ==
  IF managedApiStarting # 0
  THEN IF promise[managedApiStarting] = "pending"
       THEN Await(c, managedApiStarting)
       ELSE Returns(c :> WaiterValue(promise[managedApiStarting] = "true",
                                     ready))
  ELSE Suspend(c, "portHC")

\* ensureScannerApi is called (by runSkillScanner) and runs to its first await.
Begin(c) ==
  /\ ~hostExited
  /\ UNCHANGED beyondLifecycle
  /\ pc[c] = "idle"
  /\ \A d \in 1..(c-1) : pc[d] # "idle"
  /\ beganIdle' = [beganIdle EXCEPT ![c] =
        /\ ~external
        /\ managedApiStarting = 0
        /\ \A p \in Calls : child[p].st # "running"]
  /\ beganStarting' = [beganStarting EXCEPT ![c] =
        IF ~external /\ managedApiStarting # 0
           /\ promise[managedApiStarting] = "pending"
        THEN managedApiStarting ELSE 0]
  /\ peers' = [peers EXCEPT ![c] =
        IF beganIdle'[c]
        THEN {d \in Calls : pc[d] = "portHC" /\ beganIdle[d]} ELSE {}]
  /\ IF external
     THEN /\ Suspend(c, "extHC")
          /\ UNCHANGED checked
     ELSE IF Reusable
          THEN /\ Suspend(c, "reuseHC")
               /\ checked' = [checked EXCEPT ![c] = managedApiProcess]
          ELSE /\ FromStep3(c, managedApiReady)
               /\ UNCHANGED checked
  /\ UNCHANGED <<config, managedApiProcess, managedApiReady,
                 managedApiStarting, promise, child, hostExited, hc,
                 taskkillResult>>

HC(h) == IF h THEN "ok" ELSE "fail"

\* ExtResult with an unhealthy external endpoint falling through to the
\* managed path instead of returning the empty string.
ExtResult_FallsThrough(c, h) ==
  /\ ~hostExited
  /\ UNCHANGED beyondLifecycle
  /\ pc[c] = "extHC"
  /\ hc' = [hc EXCEPT ![c] = HC(h)]
  /\ IF h THEN Returns(c :> "external") ELSE Suspend(c, "portHC")
  /\ UNCHANGED <<config, managedApiProcess, managedApiReady,
                 managedApiStarting, promise, child, hostExited, beganIdle,
                 beganStarting, peers, checked, taskkillResult>>

\* Step 1: the health check of the external URL completes.
ExtResult(c, h) ==
  /\ ~hostExited
  /\ UNCHANGED beyondLifecycle
  /\ pc[c] = "extHC"
  /\ hc' = [hc EXCEPT ![c] = HC(h)]
  /\ Returns(c :> IF h THEN "external" ELSE "")
  /\ UNCHANGED <<config, managedApiProcess, managedApiReady,
                 managedApiStarting, promise, child, hostExited, beganIdle,
                 beganStarting, peers, checked, taskkillResult>>

\* ReuseResult treating a healthy answer like an unhealthy one: the held
\* process is killed and the call falls through to start another.
ReuseResult_Restarts(c, h) ==
  /\ ~hostExited
  /\ UNCHANGED beyondLifecycle
  /\ pc[c] = "reuseHC"
  /\ hc' = [hc EXCEPT ![c] = HC(h)]
  /\ checked' = [checked EXCEPT ![c] = IF h THEN 0 ELSE @]
  /\ IF managedApiProcess = 0
     THEN /\ Throws(c)
          /\ UNCHANGED <<managedApiProcess, managedApiReady, child>>
     ELSE /\ child' = Kill(child, managedApiProcess)
          /\ managedApiReady' = FALSE
          /\ managedApiProcess' = 0
          /\ FromStep3(c, FALSE)
  /\ UNCHANGED <<config, managedApiStarting, promise, hostExited,
                 beganIdle, beganStarting, peers, taskkillResult>>

\* Step 2: the re-check of the held process completes.
ReuseResult(c, h) ==
  /\ ~hostExited
  /\ UNCHANGED beyondLifecycle
  /\ pc[c] = "reuseHC"
  /\ hc' = [hc EXCEPT ![c] = HC(h)]
  /\ checked' = [checked EXCEPT ![c] = IF h THEN 0 ELSE @]
  /\ IF h
     THEN /\ Returns(c :> "managed")
          /\ UNCHANGED <<managedApiProcess, managedApiReady, child>>
     ELSE IF managedApiProcess = 0
          THEN \* managedApiProcess.kill() on null: TypeError
               /\ Throws(c)
               /\ UNCHANGED <<managedApiProcess, managedApiReady, child>>
          ELSE /\ child' = Kill(child, managedApiProcess)
               /\ managedApiReady' = FALSE
               /\ managedApiProcess' = 0
               /\ FromStep3(c, FALSE)
  /\ UNCHANGED <<config, managedApiStarting, promise, hostExited,
                 beganIdle, beganStarting, peers, taskkillResult>>

(***************************************************************************)
(* Step 5, the synchronous head of the attempt: the launcher candidates    *)
(* and their spawnSync probes.                                             *)
(***************************************************************************)
\* uvxPath: UVX_PATH is set.  localBin: the platform is win32, USERPROFILE
\* is set and its .local\bin\uvx.exe exists.
uvxCommandCandidates(uvxPath, localBin) ==
  (IF uvxPath THEN <<"UVX_PATH">> ELSE <<>>) \o <<"uvx">>
    \o (IF localBin THEN <<"localBin">> ELSE <<>>)

\* The first candidate whose probe has no error and status 0, else "null";
\* passing is the set of candidates whose probe would succeed.
RECURSIVE FirstAvailable(_, _)
FirstAvailable(cands, passing) ==
  IF cands = <<>> THEN "null"
  ELSE IF Head(cands) \in passing THEN Head(cands)
  ELSE FirstAvailable(Tail(cands), passing)

\* The environments probed: which optional candidates exist and which
\* candidates' probes would succeed.
ProbeCases ==
  { [uvxPath |-> FALSE, localBin |-> FALSE, passing |-> {}],
    [uvxPath |-> TRUE,  localBin |-> TRUE,  passing |-> {}],
    [uvxPath |-> FALSE, localBin |-> FALSE, passing |-> {"uvx"}],
    [uvxPath |-> TRUE,  localBin |-> FALSE, passing |-> {"UVX_PATH", "uvx"}],
    [uvxPath |-> TRUE,  localBin |-> TRUE,  passing |-> {"localBin"}] }

\* The attempt settles without ever suspending: its finally block clears
\* managedApiStarting before the enclosing assignment stores the promise.
\* spawnThrew: spawn() was called and threw, caught by the attempt.
AttemptFailsSync(c, spawnThrew) ==
  /\ promise' = [promise EXCEPT ![c] = "false"]
  /\ managedApiStarting' = c
  /\ child' = [child EXCEPT ![c].st = IF spawnThrew THEN "threw" ELSE @]
  /\ Returns(c :> InitiatorValue(FALSE))
  /\ UNCHANGED <<managedApiProcess, managedApiReady>>

\* spawn() returned a child, which becomes the held one; the attempt
\* suspends in waitForApiReady.
AttemptSpawns(c) ==
  /\ child' = [child EXCEPT ![c] =
        [st |-> "running", killed |-> FALSE, tk |-> FALSE]]
  /\ managedApiProcess' = c
  /\ UNCHANGED managedApiReady
  /\ promise' = [promise EXCEPT ![c] = "pending"]
  /\ managedApiStarting' = c
  /\ Suspend(c, "polling")

StartAttempt(c) ==
  \E env \in ProbeCases :
       LET uvxCommand ==
             FirstAvailable(uvxCommandCandidates(env.uvxPath, env.localBin),
                            env.passing)
       IN IF uvxCommand = "null"
          THEN AttemptFailsSync(c, FALSE)
          ELSE \E spawnThrows \in BOOLEAN :
                 IF spawnThrows
                 THEN AttemptFailsSync(c, TRUE)
                 ELSE AttemptSpawns(c)

\* PortResult going on to step 5 whatever the port answered.
PortResult_AlwaysStarts(c, h) ==
  /\ ~hostExited
  /\ UNCHANGED beyondLifecycle
  /\ pc[c] = "portHC"
  /\ hc' = [hc EXCEPT ![c] = HC(h)]
  /\ StartAttempt(c)
  /\ beganIdle' = [beganIdle EXCEPT ![c] = FALSE]
  /\ peers' = [peers EXCEPT ![c] = IF h THEN {} ELSE @]
  /\ UNCHANGED <<config, hostExited, beganStarting, checked,
                 taskkillResult>>

\* Step 4: the health check of the managed port completes.
PortResult(c, h) ==
  /\ ~hostExited
  /\ UNCHANGED beyondLifecycle
  /\ pc[c] = "portHC"
  /\ hc' = [hc EXCEPT ![c] = HC(h)]
  /\ IF h
     THEN /\ managedApiReady' = TRUE
          /\ Returns(c :> "managed")
          /\ UNCHANGED <<managedApiProcess, managedApiStarting, promise,
                         child>>
     ELSE StartAttempt(c)
  /\ beganIdle' = [beganIdle EXCEPT ![c] = FALSE]
  /\ peers' = [peers EXCEPT ![c] = IF h THEN {} ELSE @]
  /\ UNCHANGED <<config, hostExited, beganStarting, checked,
                 taskkillResult>>

\* The callers suspended on the promise of c's attempt.
Waiters(c) == {w \in Calls : pc[w] = "waitStart" /\ awaiting[w] = c}

\* The attempt's promise settles with ok; the finally block has cleared
\* managedApiStarting; the initiator and the waiters resume.
AttemptEnds(c, ok) ==
  /\ promise' = [promise EXCEPT ![c] = IF ok THEN "true" ELSE "false"]
  /\ managedApiStarting' = 0
  /\ Returns([w \in Waiters(c) \cup {c} |->
                IF w = c THEN InitiatorValue(ok)
                ELSE WaiterValue(ok, managedApiReady')])

\* waitForApiReady: one health poll of c's attempt completes.  A failed poll
\* either finds the deadline passed, or sleeps and polls again, which leaves
\* the attempt suspended in the same loop.
PollResult(c, h, deadline) ==
  /\ ~hostExited
  /\ UNCHANGED beyondLifecycle
  /\ pc[c] = "polling"
  /\ h => ~deadline
  /\ hc' = [hc EXCEPT ![c] = HC(h)]
  /\ IF h
     THEN /\ managedApiReady' = TRUE
          /\ AttemptEnds(c, TRUE)
          /\ UNCHANGED <<managedApiProcess, child>>
     ELSE IF deadline
          THEN /\ child' = Kill(child, c)
               /\ managedApiProcess' = 0
               /\ UNCHANGED managedApiReady
               /\ AttemptEnds(c, FALSE)
          ELSE UNCHANGED <<managedApiProcess, managedApiReady,
                          managedApiStarting, promise, child, pc, ret,
                          awaiting>>
  /\ UNCHANGED <<config, hostExited, beganIdle, beganStarting, peers,
                 checked, taskkillResult>>

\* child.on("exit") and child.on("error"), two handlers with one body: the
\* process spawned by call p ends (it exits, or its spawn fails after spawn()
\* returned), and the handler resets the supervisor whichever process is held.
ChildExit(p) ==
  /\ ~hostExited
  /\ UNCHANGED beyondLifecycle
  /\ child[p].st = "running"
  /\ child' = [child EXCEPT ![p].st = "exited"]
  /\ managedApiReady' = FALSE
  /\ managedApiProcess' = 0
  /\ UNCHANGED <<config, managedApiStarting, promise, pc, ret, awaiting,
                 hostExited, hist, taskkillResult>>

\* shutdownManagedApi without the fall back to child.kill() when taskkill
\* fails or throws.
shutdownManagedApi_NoFallback(taskkill) ==
  /\ ~hostExited
  /\ UNCHANGED beyondLifecycle
  /\ hostExited' = TRUE
  /\ taskkillResult' = taskkill
  /\ IF managedApiProcess # 0 /\ ~child[managedApiProcess].killed
     THEN /\ child' = IF taskkill = "ok"
                      THEN [child EXCEPT ![managedApiProcess].tk = TRUE]
                      ELSE IF taskkill = "notRun"
                      THEN Kill(child, managedApiProcess)
                      ELSE child
          /\ managedApiProcess' = 0
          /\ managedApiReady' = FALSE
     ELSE /\ taskkill = "notRun"
          /\ UNCHANGED <<managedApiProcess, managedApiReady, child>>
  /\ pc' = [c \in Calls |-> "idle"]
  /\ ret' = [c \in Calls |-> "none"]
  /\ awaiting' = [c \in Calls |-> 0]
  /\ beganIdle' = [c \in Calls |-> FALSE]
  /\ beganStarting' = [c \in Calls |-> 0]
  /\ peers' = [c \in Calls |-> {}]
  /\ checked' = [c \in Calls |-> 0]
  /\ hc' = [c \in Calls |-> "none"]
  /\ UNCHANGED <<config, managedApiStarting, promise>>

\* process.on("exit"): shutdownManagedApi, the last code the host runs.  The
\* suspended calls end with the host; the children are processes of their
\* own and stay as they are.  taskkill is what happens at the win32 branch:
\* "notRun" when the platform is not win32 or the held child has no pid,
\* else the outcome of spawnSync("taskkill"): "ok", "fail" (an error or a
\* non-zero status) or "throws".
shutdownManagedApi(taskkill) ==
  /\ ~hostExited
  /\ UNCHANGED beyondLifecycle
  /\ hostExited' = TRUE
  /\ taskkillResult' = taskkill
  /\ IF managedApiProcess # 0 /\ ~child[managedApiProcess].killed
     THEN /\ child' = IF taskkill = "ok"
                      THEN [child EXCEPT ![managedApiProcess].tk = TRUE]
                      ELSE Kill(child, managedApiProcess)
          /\ managedApiProcess' = 0
          /\ managedApiReady' = FALSE
     ELSE /\ taskkill = "notRun"
          /\ UNCHANGED <<managedApiProcess, managedApiReady, child>>
  /\ pc' = [c \in Calls |-> "idle"]
  /\ ret' = [c \in Calls |-> "none"]
  /\ awaiting' = [c \in Calls |-> 0]
  /\ beganIdle' = [c \in Calls |-> FALSE]
  /\ beganStarting' = [c \in Calls |-> 0]
  /\ peers' = [c \in Calls |-> {}]
  /\ checked' = [c \in Calls |-> 0]
  /\ hc' = [c \in Calls |-> "none"]
  /\ UNCHANGED <<config, managedApiStarting, promise>>

Next ==
  \/ \E c \in Calls : Begin(c)
  \/ \E c \in Calls, h \in BOOLEAN : ExtResult(c, h)
  \/ \E c \in Calls, h \in BOOLEAN : ReuseResult(c, h)
  \/ \E c \in Calls, h \in BOOLEAN : PortResult(c, h)
  \/ \E c \in Calls, h \in BOOLEAN, deadline \in BOOLEAN :
       PollResult(c, h, deadline)
  \/ \E p \in Calls : ChildExit(p)
  \/ \E taskkill \in {"notRun", "ok", "fail", "throws"} :
       shutdownManagedApi(taskkill)

Spec == Init /\ [][Next]_vars

(***************************************************************************)
(* runSkillScanner as seen from the call of ensureScannerApi it makes: it  *)
(* awaits ensureScannerApi outside any try block, returns the unavailable  *)
(* result for the empty string and goes on to the upload otherwise.        *)
(***************************************************************************)
runSkillScanner(c) ==
  IF pc[c] = "idle" THEN "notCalled"
  ELSE IF pc[c] = "threw" THEN "rejected"
  ELSE IF pc[c] # "done" THEN "awaitingEndpoint"
  ELSE IF ret[c] = "" THEN "unavailable"
  ELSE "uploading"

\* Call c entered step 5; it has called spawn() and got a child.
Entered(c) == promise[c] # "none"
Spawned(c) == child[c].st \in {"running", "exited"}
\* Process p runs and nothing was sent to end it.
LiveUnkilled(p) ==
  child[p].st = "running" /\ ~child[p].killed /\ ~child[p].tk

(***************************************************************************)
(* C1: of the ensureScannerApi calls that begin in managed mode while no   *)
(* managed process runs and no attempt is in flight, overlapping in their  *)
(* port health checks, at most one spawns a process.                       *)
(***************************************************************************)
C1_OneSpawnPerIdleRace ==
  \A c \in Calls : \A d \in peers[c] : ~(Spawned(c) /\ Spawned(d))

(***************************************************************************)
(* C2: a call that begins while the attempt held by managedApiStarting is  *)
(* pending spawns no process, and once it and the attempt's initiator have *)
(* returned they have returned the same value.                             *)
(***************************************************************************)
C2_WaitersShareOutcome ==
  \A c \in Calls :
    beganStarting[c] # 0 =>
      /\ ~Spawned(c)
      /\ (pc[c] = "done" /\ pc[beganStarting[c]] = "done")
            => ret[c] = ret[beganStarting[c]]

(***************************************************************************)
(* C3: at most one spawned process is running and not yet killed.          *)
(***************************************************************************)
C3_AtMostOneLiveProcess ==
  Cardinality({p \in Calls : LiveUnkilled(p)}) <= 1

(***************************************************************************)
(* C4: a spawned process that runs and was not sent a kill is the process  *)
(* held in managedApiProcess; so none is left after shutdownManagedApi.    *)
(***************************************************************************)
C4_LiveProcessIsHeld ==
  \A p \in Calls : LiveUnkilled(p) => managedApiProcess = p

(***************************************************************************)
(* C5: no call of ensureScannerApi throws or rejects.                      *)
(***************************************************************************)
C5_EnsureNeverThrows ==
  \A c \in Calls : pc[c] # "threw"

(***************************************************************************)
(* C6: no call of runSkillScanner rejects: each resolves to a ScanResult.  *)
(***************************************************************************)
C6_ScanNeverRejects ==
  \A c \in Calls : runSkillScanner(c) # "rejected"

(***************************************************************************)
(* C7: once a call's re-check of the Ready process it found in step 2 has  *)
(* failed, that process has been killed (or is gone).                      *)
(***************************************************************************)
C7_UnhealthyProcessKilled ==
  \A c \in Calls :
    (checked[c] # 0 /\ pc[c] # "reuseHC") =>
      (child[checked[c]].killed \/ child[checked[c]].st = "exited")

(***************************************************************************)
(* C8: an attempt whose promise has settled is no longer the one held in   *)
(* managedApiStarting, so later calls start a new attempt.                 *)
(***************************************************************************)
C8_SettledAttemptCleared ==
  \A c \in Calls :
    promise[c] \in {"true", "false"} => managedApiStarting # c

(***************************************************************************)
(* C9: with an external endpoint configured no call probes for a launcher, *)
(* spawns or kills a process; the managed state variables keep their       *)
(* initial values; each call returns the external URL if its own health    *)
(* check passed and the empty string otherwise.                            *)
(***************************************************************************)
C9_ExternalNeverManages ==
  external =>
    /\ managedApiProcess = 0
    /\ ~managedApiReady
    /\ managedApiStarting = 0
    /\ \A c \in Calls :
         /\ ~Entered(c)
         /\ child[c] = NoChild
         /\ pc[c] = "done" =>
              ret[c] = (IF hc[c] = "ok" THEN "external" ELSE "")

\* Two calls with an external endpoint: one found it healthy, one did not.
C9_Witness ==
  /\ external
  /\ \E c, d \in Calls :
       /\ pc[c] = "done" /\ hc[c] = "ok" /\ ret[c] = "external"
       /\ pc[d] = "done" /\ hc[d] = "fail" /\ ret[d] = ""

(***************************************************************************)
(* C10: the step in which a call's launcher probing finds no candidate     *)
(* returns the empty string without calling spawn and leaves the           *)
(* supervisor Idle: no handle, not ready, managedApiStarting null.         *)
(***************************************************************************)
C10_NotFoundLeavesIdle ==
  [][\A c \in Calls :
       (promise[c] = "none" /\ promise'[c] = "false"
          /\ child'[c].st = "none")
       => /\ ret'[c] = ""
          /\ managedApiProcess' = 0
          /\ ~managedApiReady'
          /\ managedApiStarting' = 0]_vars
(***************************************************************************)
(* C11: when the host exits (the exit event, which SIGINT and SIGTERM      *)
(* raise through process.exit) and a managed process is held and not yet   *)
(* killed, shutdownManagedApi ends it: where taskkill runs (win32, with a  *)
(* pid) and succeeds, by taskkill alone; where taskkill errors, exits      *)
(* non-zero or throws, or does not run, by child.kill(); afterwards the    *)
(* handle is null and the ready flag false.                                *)
(***************************************************************************)
C11_ShutdownTerminatesHeld ==
  [][(~hostExited /\ hostExited') =>
       LET p == managedApiProcess
       IN  (p # 0 /\ ~child[p].killed) =>
             /\ managedApiProcess' = 0
             /\ ~managedApiReady'
             /\ (taskkillResult' = "ok") =>
                   (child'[p].tk /\ ~child'[p].killed)
             /\ (taskkillResult' # "ok") =>
                   (child'[p].killed /\ ~child'[p].tk)]_vars

\* The host has exited, taskkill had failed and the held process was killed.
C11_Witness ==
  /\ hostExited
  /\ taskkillResult = "fail"
  /\ managedApiProcess = 0
  /\ ~managedApiReady
  /\ \E p \in Calls : child[p].st = "running" /\ child[p].killed
(***************************************************************************)
(* C26: the supervisor is in one lifecycle state at a time: while a        *)
(* startup attempt is in flight (managedApiStarting holds its pending      *)
(* promise) the ready flag is false; and the ready flag is true only if a  *)
(* health check of the managed URL succeeded and no kill or exit of the    *)
(* held process has happened since.                                        *)
(***************************************************************************)
C26_OneStateAtATime ==
  /\ (managedApiStarting # 0 /\ promise[managedApiStarting] = "pending")
       => ~managedApiReady
  /\ (managedApiReady /\ managedApiProcess # 0)
       => LiveUnkilled(managedApiProcess)

(***************************************************************************)
(* C27: a spawned process whose startup attempt is still polling is killed *)
(* only by that attempt, in the step in which its deadline passes; no      *)
(* other ensureScannerApi call kills it (the host's exit aside).           *)
(***************************************************************************)
C27_PollingKilledOnlyByOwnAttempt ==
  [][\A p \in Calls :
       (/\ pc[p] = "polling"
        /\ ~child[p].killed
        /\ child'[p].killed
        /\ ~hostExited')
       => (pc'[p] = "done" /\ promise'[p] = "false")]_vars

(***************************************************************************)
(* C28: the exit or error event of a process that is not the held one      *)
(* leaves the handle and the ready flag of the held process as they are.   *)
(***************************************************************************)
C28_StaleExitLeavesHeld ==
  [][\A p \in Calls :
       (/\ child[p].st = "running"
        /\ child'[p].st = "exited"
        /\ managedApiProcess # 0
        /\ managedApiProcess # p)
       => (/\ managedApiProcess' = managedApiProcess
           /\ managedApiReady' = managedApiReady)]_vars

(***************************************************************************)
(* C29: when the held process exits or emits an error the supervisor is    *)
(* back to Idle: no handle, not ready and no attempt held, so that the     *)
(* next ensureScannerApi call passes steps 2 and 3 and re-checks the port. *)
(***************************************************************************)
C29_HeldExitBackToIdle ==
  [][\A p \in Calls :
       (/\ child[p].st = "running"
        /\ child'[p].st = "exited"
        /\ managedApiProcess = p)
       => (/\ managedApiProcess' = 0
           /\ ~managedApiReady'
           /\ managedApiStarting' = 0)]_vars

(***************************************************************************)
(* C30: the step in which an attempt's deadline passes without a healthy   *)
(* answer kills the attempt's process (unless it has exited), leaves no    *)
(* handle and the ready flag false, and returns the empty string to the    *)
(* initiator and to every caller waiting on the attempt.                   *)
(***************************************************************************)
C30_DeadlineKillsAndReturnsEmpty ==
  [][\A c \in Calls :
       (pc[c] = "polling" /\ promise[c] = "pending"
          /\ promise'[c] = "false")
       => (/\ child'[c].killed \/ child'[c].st = "exited"
           /\ managedApiProcess' = 0
           /\ ~managedApiReady'
           /\ \A w \in Waiters(c) \cup {c} :
                pc'[w] = "done" /\ ret'[w] = "")]_vars
(***************************************************************************)
(* C31: in managed mode with no held process and no attempt in flight, the *)
(* step in which a call's health check of the managed port succeeds sets   *)
(* the ready flag and returns the managed URL; it probes for no launcher   *)
(* and spawns nothing (no attempt is made, no child appears, no handle is  *)
(* stored).                                                                *)
(***************************************************************************)
C31_HealthyPortAdopted ==
  [][\A c \in Calls :
       (/\ ~external
        /\ managedApiProcess = 0
        /\ managedApiStarting = 0
        /\ pc[c] = "portHC"
        /\ pc'[c] # "portHC"
        /\ hc'[c] = "ok")
       => (/\ managedApiReady'
           /\ pc'[c] = "done"
           /\ ret'[c] = "managed"
           /\ UNCHANGED <<child, promise, managedApiProcess,
                          managedApiStarting>>)]_vars

\* A call has adopted a healthy port: nothing was ever spawned.
C31_Witness ==
  /\ ~external
  /\ managedApiReady
  /\ managedApiProcess = 0
  /\ \A p \in Calls : child[p] = NoChild /\ promise[p] = "none"
  /\ \E c \in Calls : pc[c] = "done" /\ hc[c] = "ok" /\ ret[c] = "managed"

C33_UrlOnlyAfterHealthyCheck ==
  [][\A c \in Calls :
       (pc[c] # "done" /\ pc'[c] = "done" /\ ret'[c] # "")
       => \/ /\ pc[c] = "extHC"
             /\ hc'[c] = "ok"
             /\ ret'[c] = "external"
          \/ /\ pc[c] \in {"reuseHC", "portHC", "polling"}
             /\ hc'[c] = "ok"
             /\ ret'[c] = "managed"
          \/ /\ pc[c] = "waitStart"
             /\ pc[awaiting[c]] = "polling"
             /\ hc'[awaiting[c]] = "ok"
             /\ promise'[awaiting[c]] = "true"
             /\ ret'[c] = "managed"]_vars

\* A caller that waited on another call's attempt returned the managed URL
\* after that attempt's poll succeeded.
C33_Witness ==
  \E c \in Calls :
    /\ beganStarting[c] # 0
    /\ pc[c] = "done" /\ ret[c] = "managed"
    /\ hc[c] = "none"
    /\ hc[beganStarting[c]] = "ok"
    /\ promise[beganStarting[c]] = "true"
\* Each health check a call awaits completes: fetch answers, fails, or is
\* aborted after 3 s, and the call goes on.
HealthChecksComplete(c) ==
  /\ WF_vars(\E h \in BOOLEAN : ExtResult(c, h))
  /\ WF_vars(\E h \in BOOLEAN : ReuseResult(c, h))
  /\ WF_vars(\E h \in BOOLEAN : PortResult(c, h))

\* The clock moves on: sooner or later an iteration of the polling loop is
\* the one that answers healthy or the one after which Date.now() has
\* reached the deadline.
DeadlinePasses(c) ==
  WF_vars(PollResult(c, TRUE, FALSE) \/ PollResult(c, FALSE, TRUE))

\* The lifecycle with health checks that complete and a clock that advances.
TerminationSpec ==
  Spec /\ \A c \in Calls : HealthChecksComplete(c) /\ DeadlinePasses(c)

(***************************************************************************)
(* C34: every call of ensureScannerApi that has begun eventually returns   *)
(* (a URL or the empty string), unless the host exits first: the polling   *)
(* loop ends at the first healthy answer or at the deadline, and the       *)
(* callers waiting on the attempt are released with it.                    *)
(***************************************************************************)
C34_EveryCallReturns ==
  \A c \in Calls : (pc[c] # "idle") ~> (pc[c] = "done" \/ hostExited)

\* The same with a call that ends by a rejection counted as ended.
C34_EveryCallSettles ==
  \A c \in Calls :
    (pc[c] # "idle") ~> (pc[c] \in {"done", "threw"} \/ hostExited)

(***************************************************************************)
(* scanner/types.ts: analyzer names.                                       *)
(*                                                                         *)
(* A string is what the code can tell apart in it: its text once trimmed   *)
(* and lower-cased, whether whitespace surrounds that text, and whether    *)
(* any of its letters is upper case.                                       *)
(***************************************************************************)
\* Longest list of names passed to uniqueAnalyzers.
MaxValues == 3

Words == {"static", "static_analyzer", "behavioral", "behavioral_analyzer",
          "llm_analyzer", ""}

Strings ==
  {[text |-> w, padded |-> p, upper |-> u] :
      w \in Words, p \in BOOLEAN, u \in BOOLEAN} \
  {[text |-> "", padded |-> p, upper |-> TRUE] : p \in BOOLEAN}

\* The string literal w, and an AnalyzerName used as a string.
Lit(w) == [text |-> w, padded |-> FALSE, upper |-> FALSE]

trim(str) == [str EXCEPT !.padded = FALSE]
toLowerCase(str) == [str EXCEPT !.upper = FALSE]

CORE_ANALYZERS == <<"static_analyzer", "behavioral_analyzer">>

\* normalizeAnalyzerName that compares the lower-cased value untrimmed.
normalizeAnalyzerName_NoTrim(value) ==
  LET normalized == toLowerCase(value)
  IN  IF normalized = Lit("static") \/ normalized = Lit("static_analyzer")
      THEN "static_analyzer"
      ELSE IF normalized = Lit("behavioral")
              \/ normalized = Lit("behavioral_analyzer")
           THEN "behavioral_analyzer"
           ELSE "undefined"

normalizeAnalyzerName(value) ==
  LET normalized == toLowerCase(trim(value))
  IN  IF normalized = Lit("static") \/ normalized = Lit("static_analyzer")
      THEN "static_analyzer"
      ELSE IF normalized = Lit("behavioral")
              \/ normalized = Lit("behavioral_analyzer")
           THEN "behavioral_analyzer"
           ELSE "undefined"

\* The for loop of uniqueAnalyzers over a Set, which keeps insertion order.
RECURSIVE AddNormalized(_, _)
AddNormalized(result, vals) ==
  IF vals = <<>> THEN result
  ELSE LET normalized == normalizeAnalyzerName(Head(vals))
       IN  AddNormalized(
             IF normalized # "undefined"
                /\ \A i \in DOMAIN result : result[i] # normalized
             THEN Append(result, normalized) ELSE result,
             Tail(vals))

uniqueAnalyzers(vals) == AddNormalized(<<>>, vals)

\* AnalyzerName[] passed where strings are expected.
AsStrings(names) == [i \in DOMAIN names |-> Lit(names[i])]

NameLists == UNION {[1..n -> Strings] : n \in 0..MaxValues}

uniqueAnalyzersCall(vals) ==
  /\ uaPc = "idle"
  /\ values' = vals
  /\ analyzers' = uniqueAnalyzers(vals)
  /\ uaPc' = "returned"
  /\ UNCHANGED beyondAnalyzers

\* uniqueAnalyzers applied to what it returned.
uniqueAnalyzersAgain ==
  /\ uaPc = "returned"
  /\ values' = AsStrings(analyzers)
  /\ analyzers' = uniqueAnalyzers(AsStrings(analyzers))
  /\ uaPc' = "reapplied"
  /\ UNCHANGED beyondAnalyzers

AnalyzerInit ==
  LifecycleIdle /\ AnalyzerIdle /\ ClientIdle /\ ResolverIdle /\ FormatIdle
  /\ ZipIdle /\ UploadIdle /\ HealthIdle /\ CrcIdle

AnalyzerNext ==
  \/ uaPc = "idle" /\ \E vals \in NameLists : uniqueAnalyzersCall(vals)
  \/ uniqueAnalyzersAgain

AnalyzerSpec == AnalyzerInit /\ [][AnalyzerNext]_vars

\* The canonical name the documentation gives a trimmed, lower-cased text.
Canonical(text) ==
  CASE text \in {"static", "static_analyzer"} -> "static_analyzer"
    [] text \in {"behavioral", "behavioral_analyzer"} -> "behavioral_analyzer"
    [] OTHER -> "undefined"

\* Index of the first of vals whose canonical name is name.
FirstAt(vals, name) ==
  CHOOSE i \in DOMAIN vals :
    /\ Canonical(vals[i].text) = name
    /\ \A j \in 1..(i-1) : Canonical(vals[j].text) # name

(***************************************************************************)
(* C19: normalizeAnalyzerName depends only on the trimmed, lower-cased     *)
(* text and maps static / static_analyzer and behavioral /                 *)
(* behavioral_analyzer to the canonical names, everything else to          *)
(* undefined; uniqueAnalyzers returns exactly the recognized canonical     *)
(* names, each once, in order of first appearance; applied to its own      *)
(* output it returns that output.                                          *)
(***************************************************************************)
C19_NormalizeAndUnique ==
  /\ uaPc = "returned" =>
       /\ \A i \in DOMAIN values :
            normalizeAnalyzerName(values[i]) = Canonical(values[i].text)
       /\ {analyzers[i] : i \in DOMAIN analyzers}
            = {Canonical(values[j].text) : j \in DOMAIN values}
                \ {"undefined"}
       /\ \A i, j \in DOMAIN analyzers :
            i < j => /\ analyzers[i] # analyzers[j]
                     /\ FirstAt(values, analyzers[i])
                          < FirstAt(values, analyzers[j])
  /\ uaPc = "reapplied" => AsStrings(analyzers) = values

\* A padded upper-case short name, an unknown name and a duplicate.
C19_Witness ==
  /\ uaPc = "returned"
  /\ Len(values) = 3
  /\ values[1] = [text |-> "behavioral", padded |-> TRUE, upper |-> TRUE]
  /\ values[2].text = "llm_analyzer"
  /\ values[3] = Lit("behavioral_analyzer")
  /\ analyzers = <<"behavioral_analyzer">>
(***************************************************************************)
(* scanner/client.ts: runSkillScanner and runSkillScannerApi.              *)
(*                                                                         *)
(* A response body is what JSON.parse makes of it, as far as the code      *)
(* looks: null, any other non-object, or an object with its is_safe,       *)
(* findings, findings_count and analyzers_used members.  A finding is      *)
(* null, another non-object, or an object with its analyzer member (the    *)
(* empty string when it has none).  The members that are only copied into  *)
(* the result (max_severity, scan_duration_seconds, the texts of a         *)
(* finding) are left out.                                                  *)
(***************************************************************************)
\* Longest findings array in a response.
MaxFindings == 2

FindingAnalyzers ==
  {Lit(""), Lit("static_analyzer"), Lit("llm_analyzer"),
   [text |-> "behavioral", padded |-> TRUE, upper |-> TRUE]}

Findings ==
  {[kind |-> k, analyzer |-> Lit("")] : k \in {"null", "scalar"}}
    \cup {[kind |-> "object", analyzer |-> a] : a \in FindingAnalyzers}

FindingLists == UNION {[1..n -> Findings] : n \in 0..MaxFindings}

AnalyzersUsedLists ==
  {<<>>, <<Lit("static")>>, <<Lit("llm_analyzer")>>,
   <<[text |-> "behavioral_analyzer", padded |-> FALSE, upper |-> TRUE],
     Lit("static_analyzer"), Lit("static")>>}

JsonObjects ==
  {[kind |-> "object", is_safe |-> s, hasFindings |-> f.has,
    findings |-> f.list, findings_count |-> n, hasAnalyzers |-> a.has,
    analyzers_used |-> a.list] :
      s \in {"true", "false", "missing", "nonBoolean"},
      f \in {[has |-> FALSE, list |-> <<>>]}
              \cup {[has |-> TRUE, list |-> l] : l \in FindingLists},
      n \in {-1, 0, 2},
      a \in {[has |-> FALSE, list |-> <<>>]}
              \cup {[has |-> TRUE, list |-> l] : l \in AnalyzersUsedLists}}

JsonBodies ==
  {[NoJson EXCEPT !.kind = k] : k \in {"unparsable", "null", "scalar"}}
    \cup JsonObjects

Responses ==
  {[ok |-> TRUE, status |-> 200, text |-> "", json |-> b] : b \in JsonBodies}
    \cup {[ok |-> FALSE, status |-> st, text |-> t, json |-> NoJson] :
            st \in {404, 500}, t \in {"", "internal error"}}

Failure(available, status, kind, code, body) ==
  [NoResult EXCEPT !.available = available, !.status = status,
                   !.error = [kind |-> kind, status |-> code, body |-> body]]

requestedAnalyzers == CORE_ANALYZERS

findingsOf(parsed) == IF parsed.hasFindings THEN parsed.findings ELSE <<>>

analyzersFromResponse(parsed) ==
  IF parsed.hasAnalyzers THEN uniqueAnalyzers(parsed.analyzers_used) ELSE <<>>

analyzersFromFindings(parsed) ==
  LET findings == findingsOf(parsed)
  IN  uniqueAnalyzers([i \in DOMAIN findings |->
        IF findings[i].kind = "object" THEN findings[i].analyzer
        ELSE Lit("")])

\* executedAnalyzers built from the response and the findings alone.
executedAnalyzers_ResponseOnly(parsed) ==
  uniqueAnalyzers(AsStrings(analyzersFromResponse(parsed))
                    \o AsStrings(analyzersFromFindings(parsed)))

executedAnalyzers(parsed) ==
  uniqueAnalyzers(AsStrings(requestedAnalyzers)
                    \o AsStrings(analyzersFromResponse(parsed))
                    \o AsStrings(analyzersFromFindings(parsed)))

\* Reading a member of null is a TypeError: parsed.findings on a null body,
\* f.rule_id on a null finding.
ProcessingThrows(parsed) ==
  \/ parsed.kind = "null"
  \/ \E i \in DOMAIN findingsOf(parsed) : findingsOf(parsed)[i].kind = "null"

ParsedResult(parsed) ==
  [available |-> TRUE,
   status |-> IF parsed.is_safe = "true" THEN "SAFE" ELSE "UNSAFE",
   error |-> NoError,
   totalFindings |-> IF parsed.findings_count # -1
                     THEN parsed.findings_count
                     ELSE Len(findingsOf(parsed)),
   analyzersUsed |-> IF Len(executedAnalyzers(parsed)) > 0
                     THEN executedAnalyzers(parsed) ELSE <<>>]

\* runSkillScanner is called and awaits ensureScannerApi.
ScanCall ==
  /\ scanPc = "idle"
  /\ scanPc' = "ensure"
  /\ UNCHANGED <<apiUrl, zipBuilt, uploaded, response, aborted, scanResult>>
  /\ UNCHANGED beyondClient

\* EndpointResolved going on to the upload whatever the endpoint is.
EndpointResolved_NoCheck(endpoint) ==
  /\ scanPc = "ensure"
  /\ UNCHANGED beyondClient
  /\ UNCHANGED <<response, aborted>>
  /\ IF endpoint = "throws"
     THEN /\ scanPc' = "rejected"
          /\ UNCHANGED <<apiUrl, zipBuilt, uploaded, scanResult>>
     ELSE /\ apiUrl' = endpoint
          /\ zipBuilt' = TRUE
          /\ uploaded' = TRUE
          /\ scanPc' = "fetch"
          /\ UNCHANGED scanResult

\* ensureScannerApi settles: it rejects, or resolves to the empty string or
\* to an endpoint; with an endpoint runSkillScannerApi runs up to its fetch.
EndpointResolved(endpoint) ==
  /\ scanPc = "ensure"
  /\ UNCHANGED beyondClient
  /\ UNCHANGED <<response, aborted>>
  /\ IF endpoint = "throws"
     THEN /\ scanPc' = "rejected"
          /\ UNCHANGED <<apiUrl, zipBuilt, uploaded, scanResult>>
     ELSE IF endpoint = ""
          THEN /\ apiUrl' = endpoint
               /\ scanResult' = Failure(FALSE, "absent", "install", 0, "")
               /\ scanPc' = "done"
               /\ UNCHANGED <<zipBuilt, uploaded>>
          ELSE /\ apiUrl' = endpoint
               /\ zipBuilt' = TRUE
               /\ uploaded' = TRUE
               /\ scanPc' = "fetch"
               /\ UNCHANGED scanResult

\* fetch resolves: the response's status line and headers have arrived.
FetchResponds(r) ==
  /\ scanPc = "fetch"
  /\ response' = r
  /\ scanPc' = IF r.ok THEN "json" ELSE "text"
  /\ UNCHANGED <<apiUrl, zipBuilt, uploaded, aborted, scanResult>>
  /\ UNCHANGED beyondClient

\* The request timer fires before fetch resolves: AbortError.
FetchAborts ==
  /\ scanPc = "fetch"
  /\ aborted' = TRUE
  /\ scanResult' = Failure(TRUE, "ERROR", "timeout", 0, "")
  /\ scanPc' = "done"
  /\ UNCHANGED <<apiUrl, zipBuilt, uploaded, response>>
  /\ UNCHANGED beyondClient

\* fetch rejects with any other error.
FetchFails ==
  /\ scanPc = "fetch"
  /\ scanResult' = Failure(FALSE, "absent", "unreachable", 0, "")
  /\ scanPc' = "done"
  /\ UNCHANGED <<apiUrl, zipBuilt, uploaded, response, aborted>>
  /\ UNCHANGED beyondClient

\* response.text() of a non-ok response settles: the body is read, or the
\* read fails (the connection breaks, or the request timer aborts it) and
\* the catch handler substitutes the empty string.
TextSettles(how) ==
  /\ scanPc = "text"
  /\ aborted' = (how = "aborted")
  /\ scanResult' = Failure(TRUE, "ERROR", "http", response.status,
                           IF how = "read" THEN response.text ELSE "")
  /\ scanPc' = "done"
  /\ UNCHANGED <<apiUrl, zipBuilt, uploaded, response>>
  /\ UNCHANGED beyondClient

\* response.json() of an ok response settles: the body is read and parsed,
\* or the read fails or is aborted by the request timer; the inner catch
\* takes every rejection for invalid JSON.  An exception while the parsed
\* body is processed reaches the outer catch, which takes it for a
\* transport failure.
JsonSettles(how) ==
  /\ scanPc = "json"
  /\ aborted' = (how = "aborted")
  /\ scanResult' =
       IF how # "read" \/ response.json.kind = "unparsable"
       THEN Failure(TRUE, "ERROR", "invalidJson", 0, "")
       ELSE IF ProcessingThrows(response.json)
            THEN Failure(FALSE, "absent", "unreachable", 0, "")
            ELSE ParsedResult(response.json)
  /\ scanPc' = "done"
  /\ UNCHANGED <<apiUrl, zipBuilt, uploaded, response>>
  /\ UNCHANGED beyondClient

ScanInit ==
  LifecycleIdle /\ AnalyzerIdle /\ ClientIdle /\ ResolverIdle /\ FormatIdle
  /\ ZipIdle /\ UploadIdle /\ HealthIdle /\ CrcIdle

ScanNext ==
  \/ ScanCall
  \/ \E endpoint \in {"", "managed", "external", "throws"} :
       EndpointResolved(endpoint)
  \/ scanPc = "fetch" /\ \E r \in Responses : FetchResponds(r)
  \/ FetchAborts
  \/ FetchFails
  \/ \E how \in {"read", "failed", "aborted"} : TextSettles(how)
  \/ \E how \in {"read", "failed", "aborted"} : JsonSettles(how)

ScanSpec == ScanInit /\ [][ScanNext]_vars

\* fetch resolved to a Response.
Responded == response # NoResponse
\* The body of an ok response was read and parsed into a JSON object.
ParsedObject ==
  /\ scanPc = "done"
  /\ Responded /\ response.ok
  /\ response.json.kind = "object"
  /\ scanResult.error.kind # "invalidJson"

(***************************************************************************)
(* C12: runSkillScanner returns available:false only when no endpoint was  *)
(* obtained or fetch itself failed; once the sidecar has returned an HTTP  *)
(* response, whatever its status and body, the result has available:true.  *)
(***************************************************************************)
C12_UnavailableOnlyWithoutResponse ==
  (scanPc = "done" /\ Responded) => scanResult.available

(***************************************************************************)
(* C13: a scan that reached the endpoint and failed is {available:true,    *)
(* status:ERROR}: a non-2xx response with an error naming the status code  *)
(* and the body (as far as it could be read), an unparsable body with      *)
(* ERROR, a client-side timeout with the timeout message.                  *)
(***************************************************************************)
C13_ReachedButFailedIsError ==
  scanPc = "done" =>
    /\ (Responded /\ ~response.ok) =>
         \E body \in {response.text, ""} :
           scanResult = Failure(TRUE, "ERROR", "http", response.status, body)
    /\ (Responded /\ response.ok /\ response.json.kind = "unparsable") =>
         (scanResult.available /\ scanResult.status = "ERROR")
    /\ (aborted /\ (Responded => response.ok)) =>
         scanResult = Failure(TRUE, "ERROR", "timeout", 0, "")

(***************************************************************************)
(* C14: for every response parsed into an object the status is SAFE when   *)
(* its is_safe member is the boolean true and UNSAFE in every other case,  *)
(* whatever the findings are.                                              *)
(***************************************************************************)
C14_SafeIffFlagTrue ==
  ParsedObject =>
    scanResult.status =
      (IF response.json.is_safe = "true" THEN "SAFE" ELSE "UNSAFE")

(***************************************************************************)
(* C15: when ensureScannerApi returns the empty string, runSkillScanner    *)
(* returns {available:false} with the install guidance as error and no     *)
(* status, builds no archive and issues no upload request.                 *)
(***************************************************************************)
C15_NoEndpointNoUpload ==
  (scanPc = "done" /\ apiUrl = "") =>
    /\ scanResult = Failure(FALSE, "absent", "install", 0, "")
    /\ ~zipBuilt
    /\ ~uploaded
    /\ ~Responded

\* A scan that ended for want of an endpoint.
C15_Witness ==
  /\ scanPc = "done"
  /\ apiUrl = ""
  /\ scanResult.error.kind = "install"

\* The canonical names among the strings of a list.
NamesIn(strs) ==
  {Canonical(strs[i].text) : i \in DOMAIN strs} \ {"undefined"}

(***************************************************************************)
(* C18: on a successful scan analyzersUsed holds, each once, exactly the   *)
(* canonical names of the analyzers requested, of the response's           *)
(* analyzers_used and of the analyzer members of the findings; every       *)
(* requested analyzer is among them.                                       *)
(***************************************************************************)
C18_AnalyzersUsedIsUnion ==
  (scanPc = "done" /\ scanResult.status \in {"SAFE", "UNSAFE"}) =>
    LET used == scanResult.analyzersUsed
        asked == {requestedAnalyzers[i] : i \in DOMAIN requestedAnalyzers}
        found == [i \in DOMAIN response.json.findings |->
                    response.json.findings[i].analyzer]
    IN  /\ {used[i] : i \in DOMAIN used}
             = asked \cup NamesIn(response.json.analyzers_used)
                     \cup NamesIn(found)
        /\ \A i, j \in DOMAIN used : i # j => used[i] # used[j]
        /\ asked \subseteq {used[i] : i \in DOMAIN used}

\* A successful scan whose response names one analyzer only, no finding
\* naming the other, and both are reported.
C18_Witness ==
  /\ scanPc = "done"
  /\ scanResult.status = "UNSAFE"
  /\ response.json.analyzers_used = <<Lit("static")>>
  /\ response.json.hasFindings
  /\ Len(response.json.findings) = 1
  /\ response.json.findings[1].analyzer = Lit("llm_analyzer")
  /\ scanResult.analyzersUsed = <<"static_analyzer", "behavioral_analyzer">>

(***************************************************************************)
(* scanner/uv-resolver.ts: resolveScannerLauncher, and the launch of       *)
(* ensureScannerApi's step 5.                                              *)
(*                                                                         *)
(* A candidate is a command (uvx or uv) and where its path points: "bare"  *)
(* is the bare command name, "custom" a path of its own, "exe", "cmd" and  *)
(* "bat" the files of %USERPROFILE%\.local\bin, "dirA".."dirC" files in    *)
(* directories.  An environment gives, per command, the override variable  *)
(* (UVX_PATH, UV_PATH), the existing files found along PATH and the lines  *)
(* printed by which / where, and overall whether the platform is win32     *)
(* with USERPROFILE set, whether .local\bin\uvx.exe exists, and the set    *)
(* of candidates whose --version probe has no error and status 0.          *)
(***************************************************************************)
\* Most candidates whose probe passes in one environment.
MaxPassing == 2

Places == {"bare", "custom", "exe", "cmd", "bat", "dirA", "dirB", "dirC"}
AllCandidates == {Candidate(c, a) : c \in {"uvx", "uv"}, a \in Places}

Searches ==
  {[override |-> o, pathHits |-> f.path, lookup |-> f.lookup] :
      o \in {"unset", "custom", "dirA"},
      f \in {[path |-> <<>>, lookup |-> <<>>],
             [path |-> <<"dirA", "dirB">>, lookup |-> <<"dirC", "dirA">>]}}

Environments ==
  {[uvx |-> sx, uv |-> sv, win32Profile |-> w.win, localBinExists |-> w.exe,
    passing |-> ps] :
      sx \in Searches, sv \in Searches,
      w \in {[win |-> FALSE, exe |-> FALSE], [win |-> TRUE, exe |-> FALSE],
             [win |-> TRUE, exe |-> TRUE]},
      ps \in {q \in SUBSET AllCandidates : Cardinality(q) <= MaxPassing}}

\* [...new Set(candidates)]: the first occurrence of each, in order.
RECURSIVE Dedupe(_, _)
Dedupe(seen, cands) ==
  IF cands = <<>> THEN seen
  ELSE Dedupe(IF \E i \in DOMAIN seen : seen[i] = Head(cands)
              THEN seen ELSE Append(seen, Head(cands)),
              Tail(cands))

AtPlaces(cmd, places) == [i \in DOMAIN places |-> Candidate(cmd, places[i])]

resolveUvxCommandCandidates(e) ==
  Dedupe(<<>>,
    (IF e.uvx.override # "unset"
     THEN <<Candidate("uvx", e.uvx.override)>> ELSE <<>>)
    \o <<Candidate("uvx", "bare")>>
    \o (IF e.win32Profile
        THEN AtPlaces("uvx", <<"exe", "cmd", "bat">>) ELSE <<>>)
    \o AtPlaces("uvx", e.uvx.pathHits)
    \o AtPlaces("uvx", e.uvx.lookup))

resolveUvCommandCandidates(e) ==
  Dedupe(<<>>,
    (IF e.uv.override # "unset"
     THEN <<Candidate("uv", e.uv.override)>> ELSE <<>>)
    \o <<Candidate("uv", "bare")>>
    \o (IF e.win32Profile
        THEN AtPlaces("uv", <<"exe", "cmd", "bat">>) ELSE <<>>)
    \o AtPlaces("uv", e.uv.pathHits)
    \o AtPlaces("uv", e.uv.lookup))

commandAvailable(command, e) == command \in e.passing

\* The for loops of resolveScannerLauncher: the first available candidate.
RECURSIVE FirstCommand(_, _)
FirstCommand(cands, e) ==
  IF cands = <<>> THEN Candidate("none", "none")
  ELSE IF commandAvailable(Head(cands), e) THEN Head(cands)
  ELSE FirstCommand(Tail(cands), e)

\* resolveScannerLauncher trying the uv candidates before the uvx ones.
resolveScannerLauncher_UvFirst(e) ==
  LET uvx == FirstCommand(resolveUvxCommandCandidates(e), e)
      uv  == FirstCommand(resolveUvCommandCandidates(e), e)
  IN  IF uv.cmd # "none"
      THEN [found |-> TRUE, command |-> uv, preArgs |-> <<"x">>]
      ELSE IF uvx.cmd # "none"
           THEN [found |-> TRUE, command |-> uvx, preArgs |-> <<>>]
           ELSE NoLauncher

resolveScannerLauncher(e) ==
  LET uvx == FirstCommand(resolveUvxCommandCandidates(e), e)
      uv  == FirstCommand(resolveUvCommandCandidates(e), e)
  IN  IF uvx.cmd # "none"
      THEN [found |-> TRUE, command |-> uvx, preArgs |-> <<>>]
      ELSE IF uv.cmd # "none"
           THEN [found |-> TRUE, command |-> uv, preArgs |-> <<"x">>]
           ELSE NoLauncher

\* The arguments step 5 passes after the command.
SidecarArgs ==
  <<"--from", "cisco-ai-skill-scanner", "skill-scanner-api", "--port",
    "SCANNER_API_PORT">>

\* Step 5's candidates by the names uvxCommandCandidates gives them.
CandidateNamed(name, e) ==
  CASE name = "UVX_PATH" -> Candidate("uvx", e.uvx.override)
    [] name = "uvx" -> Candidate("uvx", "bare")
    [] name = "localBin" -> Candidate("uvx", "exe")

\* The spawn() call step 5 of ensureScannerApi makes in environment e.
Step5Spawn(e) ==
  LET uvxCommand ==
        FirstAvailable(
          uvxCommandCandidates(e.uvx.override # "unset",
                               e.win32Profile /\ e.localBinExists),
          {n \in {"UVX_PATH", "uvx", "localBin"} :
             CandidateNamed(n, e) \in e.passing})
  IN  IF uvxCommand = "null" THEN NoSpawn
      ELSE [called |-> TRUE, command |-> CandidateNamed(uvxCommand, e),
            args |-> SidecarArgs, shell |-> FALSE]

\* resolveScannerLauncher is called in environment e.
Resolve(e) ==
  /\ resPc = "idle"
  /\ processEnv' = e
  /\ launcher' = resolveScannerLauncher(e)
  /\ resPc' = "resolved"
  /\ UNCHANGED spawnCall
  /\ UNCHANGED beyondResolver

\* Step 5 of ensureScannerApi runs in environment e up to its spawn().
Launch(e) ==
  /\ resPc = "idle"
  /\ processEnv' = e
  /\ spawnCall' = Step5Spawn(e)
  /\ resPc' = "started"
  /\ UNCHANGED launcher
  /\ UNCHANGED beyondResolver

ResolverInit ==
  LifecycleIdle /\ AnalyzerIdle /\ ClientIdle /\ ResolverIdle /\ FormatIdle
  /\ ZipIdle /\ UploadIdle /\ HealthIdle /\ CrcIdle

ResolverNext ==
  \/ resPc = "idle" /\ \E e \in Environments : Resolve(e)
  \/ resPc = "idle" /\ \E e \in Environments : Launch(e)

ResolverSpec == ResolverInit /\ [][ResolverNext]_vars

\* The places a command is looked for at, in the documented order: the
\* override, the bare name, the platform install directory, the PATH
\* entries, the system lookup.
SearchOrder(cmd, e) ==
  LET search == IF cmd = "uvx" THEN e.uvx ELSE e.uv
  IN  (IF search.override # "unset" THEN <<search.override>> ELSE <<>>)
      \o <<"bare">>
      \o (IF e.win32Profile THEN <<"exe", "cmd", "bat">> ELSE <<>>)
      \o search.pathHits \o search.lookup

SomePasses(cmd, e) ==
  \E i \in DOMAIN SearchOrder(cmd, e) :
    Candidate(cmd, SearchOrder(cmd, e)[i]) \in e.passing

\* command is a passing candidate for cmd that no passing one precedes.
IsFirstPassing(command, cmd, e) ==
  \E i \in DOMAIN SearchOrder(cmd, e) :
    /\ command = Candidate(cmd, SearchOrder(cmd, e)[i])
    /\ command \in e.passing
    /\ \A j \in 1..(i-1) : Candidate(cmd, SearchOrder(cmd, e)[j]) \notin e.passing

(***************************************************************************)
(* C16: when no uvx candidate works but a uv candidate does, step 5 of     *)
(* ensureScannerApi spawns the launcher the resolver finds: the uv command *)
(* with the arguments x, --from, cisco-ai-skill-scanner,                   *)
(* skill-scanner-api, --port, <port>, and shell disabled.                  *)
(***************************************************************************)
C16_SpawnsResolvedLauncher ==
  (resPc = "started" /\ ~SomePasses("uvx", processEnv)
     /\ SomePasses("uv", processEnv)) =>
    spawnCall = [called |-> TRUE,
                 command |-> resolveScannerLauncher(processEnv).command,
                 args |-> <<"x">> \o SidecarArgs,
                 shell |-> FALSE]

(***************************************************************************)
(* C17: resolveScannerLauncher returns the first uvx candidate, in the     *)
(* order override, bare name, install directory, PATH entries, system      *)
(* lookup, whose probe passes, with no leading arguments; only when no uvx *)
(* candidate passes, the first passing uv candidate in the same order with *)
(* the leading argument x; failing candidates are skipped; null only when  *)
(* every candidate of both searches failed.                                *)
(***************************************************************************)
C17_FirstPassingCandidate ==
  resPc = "resolved" =>
    /\ SomePasses("uvx", processEnv) =>
         /\ launcher.found
         /\ launcher.preArgs = <<>>
         /\ IsFirstPassing(launcher.command, "uvx", processEnv)
    /\ (~SomePasses("uvx", processEnv) /\ SomePasses("uv", processEnv)) =>
         /\ launcher.found
         /\ launcher.preArgs = <<"x">>
         /\ IsFirstPassing(launcher.command, "uv", processEnv)
    /\ (launcher = NoLauncher) <=>
         (~SomePasses("uvx", processEnv) /\ ~SomePasses("uv", processEnv))

\* No uvx candidate passes, the uv override and bare name fail, and the uv
\* found along PATH is returned with the leading argument.
C17_Witness ==
  /\ resPc = "resolved"
  /\ processEnv.uvx.pathHits # <<>>
  /\ processEnv.uv.override = "custom"
  /\ launcher = [found |-> TRUE, command |-> Candidate("uv", "dirA"),
                 preArgs |-> <<"x">>]

(***************************************************************************)
(* formatters.ts: formatReadSkillResponse, by the sections of the text it  *)
(* returns.  The skill content is taken not to quote the notice itself.    *)
(***************************************************************************)
\* The ScanResult values passed: unavailable, ERROR, and SAFE or UNSAFE with
\* a findings total (-1: none given), findings and analyzers.
FormatResults ==
  {[NoFormatResult EXCEPT !.error = "text"],
   [NoFormatResult EXCEPT !.available = TRUE, !.status = "ERROR",
                          !.error = "text"]}
  \cup
  {[available |-> TRUE, status |-> st, error |-> "absent",
    totalFindings |-> n, findings |-> f, analyzersUsed |-> a,
    maxSeverity |-> sev] :
      st \in {"SAFE", "UNSAFE"}, n \in {-1, 0, 2},
      f \in UNION {[1..k -> FindingAnalyzers] : k \in 0..MaxFindings},
      a \in {<<>>, <<"static_analyzer">>}, sev \in {"", "HIGH"}}

\* What the read tool passes: a scan result when scanning is enabled, none
\* when it is disabled.
FormatCalls ==
  {[hasScanResult |-> TRUE, scanResult |-> r, enableScan |-> "true",
    scanNote |-> note] : r \in FormatResults, note \in BOOLEAN}
  \cup {[NoFormatArgs EXCEPT !.enableScan = "false"]}

countByAnalyzer(result, name) ==
  Cardinality({i \in DOMAIN result.findings :
                 normalizeAnalyzerName(result.findings[i]) = name})

isSafe(result) ==
  result.status = "SAFE" \/ result.totalFindings = 0

formatReadSkillResponse(args) ==
  LET result == args.scanResult
      scanned == args.hasScanResult /\ result.available
                   /\ result.status # "ERROR"
      shouldShowUntrustedNotice ==
        IF args.hasScanResult
        THEN IF ~result.available THEN TRUE
             ELSE IF result.status = "ERROR" THEN TRUE
             ELSE ~isSafe(result)
        ELSE args.enableScan = "false"
  IN  [sections |->
         (IF args.hasScanResult THEN {"Cisco Skill Scanner Results"} ELSE {})
         \cup (IF args.hasScanResult /\ ~result.available
               THEN {"Scanner not available"} ELSE {})
         \cup (IF args.hasScanResult /\ result.available
                  /\ result.status = "ERROR"
               THEN {"Scan error"} ELSE {})
         \cup (IF scanned /\ args.scanNote THEN {"Scan Note"} ELSE {})
         \cup (IF scanned /\ Len(result.findings) > 0
               THEN {"Findings"} ELSE {})
         \cup (IF ~args.hasScanResult /\ args.enableScan = "false"
               THEN {"Security scanning is disabled"} ELSE {})
         \cup (IF shouldShowUntrustedNotice
               THEN {"Untrusted Content Notice"} ELSE {}),
       status |->
         IF ~scanned THEN ""
         ELSE IF isSafe(result) THEN "SAFE"
         ELSE IF result.maxSeverity # "" THEN result.maxSeverity
         ELSE "UNKNOWN",
       analyzersRan |->
         IF ~scanned THEN <<>>
         ELSE IF Len(result.analyzersUsed) > 0
              THEN result.analyzersUsed ELSE CORE_ANALYZERS,
       staticFindingsCount |->
         IF scanned THEN countByAnalyzer(result, "static_analyzer")
         ELSE 0,
       behavioralFindingsCount |->
         IF scanned THEN countByAnalyzer(result, "behavioral_analyzer")
         ELSE 0]

Format(args) ==
  /\ formatPc = "idle"
  /\ formatArgs' = args
  /\ formatted' = formatReadSkillResponse(args)
  /\ formatPc' = "returned"
  /\ UNCHANGED beyondFormat

FormatInit ==
  LifecycleIdle /\ AnalyzerIdle /\ ClientIdle /\ ResolverIdle /\ FormatIdle
  /\ ZipIdle /\ UploadIdle /\ HealthIdle /\ CrcIdle

FormatNext == formatPc = "idle" /\ \E args \in FormatCalls : Format(args)

FormatSpec == FormatInit /\ [][FormatNext]_vars

(***************************************************************************)
(* C20: formatReadSkillResponse leaves the Untrusted Content Notice out    *)
(* only for a scan result that is present, available and SAFE; for a       *)
(* result that is unavailable, ERROR or UNSAFE, and when scanning is       *)
(* disabled, the text contains the notice.                                 *)
(***************************************************************************)
C20_NoticeUnlessSafe ==
  formatPc = "returned" =>
    ("Untrusted Content Notice" \notin formatted.sections =>
       /\ formatArgs.hasScanResult
       /\ formatArgs.scanResult.available
       /\ formatArgs.scanResult.status = "SAFE")

(***************************************************************************)
(* zip.ts: crc32 and buildZipBuffer.  A Buffer is a sequence of bytes.  A  *)
(* 32-bit value that can exceed 2^31 - 1 (a checksum) is a function from   *)
(* the bit positions 0..31, 0 the lowest, to bits; lengths, offsets and    *)
(* signatures stay below 2^31 and are numbers.                             *)
(***************************************************************************)
\* Number of entries of the Map passed to buildZipBuffer.
MaxFiles == 2

\* Largest value Buffer.writeUInt16LE accepts; above it Node throws a
\* RangeError (ERR_OUT_OF_RANGE).
U16Max == 65535

Bits == 0..31

\* The 32 bits of a number below 2^31.
Word(n) == [i \in Bits |-> IF i < 31 THEN (n \div 2^i) % 2 ELSE 0]

\* The 32 bits whose little-endian bytes are b.
FromBytes(b) == [i \in Bits |-> (b[(i \div 8) + 1] \div 2^(i % 8)) % 2]

\* a ^ b
Xor(a, b) == [i \in Bits |-> (a[i] + b[i]) % 2]

\* a >>> k
Shr(a, k) == [i \in Bits |-> IF i + k <= 31 THEN a[i + k] ELSE 0]

\* a & 0xff, as an index
LowByte(a) ==
  a[0] + 2 * a[1] + 4 * a[2] + 8 * a[3] + 16 * a[4] + 32 * a[5]
    + 64 * a[6] + 128 * a[7]

\* 0xedb88320
Polynomial == FromBytes(<<32, 131, 184, 237>>)

\* 0xffffffff
AllOnes == [i \in Bits |-> 1]

\* The inner loop of the table initialiser: k more rounds on c.
RECURSIVE TableRounds(_, _)
TableRounds(c, k) ==
  IF k = 0 THEN c
  ELSE TableRounds(IF c[0] = 1 THEN Xor(Polynomial, Shr(c, 1))
                   ELSE Shr(c, 1), k - 1)

crc32Table == [n \in 0..255 |-> TableRounds(Word(n), 8)]

\* crc = ...: the 32 bits of the value assigned, from bit i on, held as
\* they are from then on.
RECURSIVE StoredFrom(_, _)
StoredFrom(w, i) ==
  IF i = 31 THEN i :> w[i] ELSE (i :> w[i]) @@ StoredFrom(w, i + 1)

\* The loop of crc32 from index i (1-based) on.
RECURSIVE crc32Loop(_, _, _)
crc32Loop(crc, buf, i) ==
  IF i > Len(buf) THEN crc
  ELSE crc32Loop(StoredFrom(Xor(crc32Table[LowByte(Xor(crc, Word(buf[i])))],
                                Shr(crc, 8)), 0), buf, i + 1)

\* A number that is the result of ^ : its 32 bits read as a signed value,
\* negative when bit 31 is set.
Int32(w) == [signed |-> TRUE, bits |-> w]

\* n >>> 0: the same 32 bits read as an unsigned value.
Uint32(n) == [signed |-> FALSE, bits |-> n.bits]

\* crc32 returning crc ^ 0xffffffff as ^ leaves it.
crc32_Signed(buf) == Int32(Xor(crc32Loop(AllOnes, buf, 1), AllOnes))

\* return (crc ^ 0xffffffff) >>> 0
crc32(buf) == Uint32(Int32(Xor(crc32Loop(AllOnes, buf, 1), AllOnes)))

\* Buffer.writeUInt16LE and Buffer.writeUInt32LE, by the bytes written.
writeUInt16LE(v) == <<v % 256, (v \div 256) % 256>>
writeUInt32LE(v) ==
  <<v % 256, (v \div 256) % 256, (v \div 65536) % 256,
    (v \div 16777216) % 256>>
writeWordLE(w) ==
  [k \in 1..4 |->
     LowByte([i \in Bits |-> IF i < 8 THEN w[8 * (k - 1) + i] ELSE 0])]

\* 0x04034b50, 0x02014b50 and 0x06054b50
LocalSignature == 67324752
CentralSignature == 33639248
EndSignature == 101010256

\* Buffer.from(name, "utf-8"): a name is its sequence of code points.
Utf8Char(cp) ==
  IF cp < 128 THEN <<cp>>
  ELSE IF cp < 2048 THEN <<192 + (cp \div 64), 128 + (cp % 64)>>
  ELSE <<224 + (cp \div 4096), 128 + ((cp \div 64) % 64), 128 + (cp % 64)>>

\* A string is a unit of characters (code points) repeated a number of
\* times, so that a name longer than a 16-bit field can hold is a small
\* value.
Str(unit) == [unit |-> unit, times |-> 1]
Repeat(unit, times) == [unit |-> unit, times |-> times]

RECURSIVE Utf8Unit(_)
Utf8Unit(unit) ==
  IF unit = <<>> THEN <<>>
  ELSE Utf8Char(Head(unit)) \o Utf8Unit(Tail(unit))

RECURSIVE Repeated(_, _)
Repeated(bytes, times) ==
  IF times = 0 THEN <<>> ELSE bytes \o Repeated(bytes, times - 1)

\* Buffer.from(name, "utf-8") and its length.
Utf8(name) == Repeated(Utf8Unit(name.unit), name.times)
Utf8Length(name) == Len(Utf8Unit(name.unit)) * name.times

\* A name of 65536 characters "a".
LongName == Repeat(<<97>>, U16Max + 1)

\* Names passed: "a", "\u00e9", "a/\u00e9" and the long one.
Names == {Str(<<97>>), Str(<<233>>), Str(<<97, 47, 233>>), LongName}

\* Contents passed: empty, one byte, and two texts.
Contents == {<<>>, <<0>>, <<72, 105>>, <<255, 80, 75>>}

\* The Maps passed: names are unique, iteration is in insertion order.
FileSets ==
  {fs \in UNION {[1..k -> [name : Names, data : Contents]] :
                   k \in 0..MaxFiles} :
     \A i, j \in DOMAIN fs : fs[i].name = fs[j].name => i = j}

\* The local header, with the compression method 8 in place of 0.
localHeader_Deflate(nameBytes, data) ==
  writeUInt32LE(LocalSignature) \o writeUInt16LE(20) \o writeUInt16LE(0)
    \o writeUInt16LE(8) \o writeUInt16LE(0) \o writeUInt16LE(0)
    \o writeWordLE(crc32(data).bits) \o writeUInt32LE(Len(data))
    \o writeUInt32LE(Len(data)) \o writeUInt16LE(Len(nameBytes))
    \o writeUInt16LE(0)

localHeader(nameBytes, data) ==
  writeUInt32LE(LocalSignature) \o writeUInt16LE(20) \o writeUInt16LE(0)
    \o writeUInt16LE(0) \o writeUInt16LE(0) \o writeUInt16LE(0)
    \o writeWordLE(crc32(data).bits) \o writeUInt32LE(Len(data))
    \o writeUInt32LE(Len(data)) \o writeUInt16LE(Len(nameBytes))
    \o writeUInt16LE(0)

\* The central record with the offset field left 0.
cdHeader_ZeroOffset(entry) ==
  writeUInt32LE(CentralSignature) \o writeUInt16LE(20) \o writeUInt16LE(20)
    \o writeUInt16LE(0) \o writeUInt16LE(0) \o writeUInt16LE(0)
    \o writeUInt16LE(0) \o writeWordLE(crc32(entry.data).bits)
    \o writeUInt32LE(Len(entry.data)) \o writeUInt32LE(Len(entry.data))
    \o writeUInt16LE(Len(entry.name)) \o writeUInt16LE(0)
    \o writeUInt16LE(0) \o writeUInt16LE(0) \o writeUInt16LE(0)
    \o writeUInt32LE(0) \o writeUInt32LE(0)

cdHeader(entry) ==
  writeUInt32LE(CentralSignature) \o writeUInt16LE(20) \o writeUInt16LE(20)
    \o writeUInt16LE(0) \o writeUInt16LE(0) \o writeUInt16LE(0)
    \o writeUInt16LE(0) \o writeWordLE(crc32(entry.data).bits)
    \o writeUInt32LE(Len(entry.data)) \o writeUInt32LE(Len(entry.data))
    \o writeUInt16LE(Len(entry.name)) \o writeUInt16LE(0)
    \o writeUInt16LE(0) \o writeUInt16LE(0) \o writeUInt16LE(0)
    \o writeUInt32LE(0) \o writeUInt32LE(entry.offset)

\* The end record, with the total-entries field left 0.
eocd_NoTotal(count, cdSize, cdStart) ==
  writeUInt32LE(EndSignature) \o writeUInt16LE(0) \o writeUInt16LE(0)
    \o writeUInt16LE(count) \o writeUInt16LE(0)
    \o writeUInt32LE(cdSize) \o writeUInt32LE(cdStart) \o writeUInt16LE(0)

eocd(count, cdSize, cdStart) ==
  writeUInt32LE(EndSignature) \o writeUInt16LE(0) \o writeUInt16LE(0)
    \o writeUInt16LE(count) \o writeUInt16LE(count)
    \o writeUInt32LE(cdSize) \o writeUInt32LE(cdStart) \o writeUInt16LE(0)

\* The first loop from entry i on: st holds entries, parts (concatenated)
\* and offset.
RECURSIVE LocalLoop(_, _, _)
LocalLoop(fs, i, st) ==
  IF i > Len(fs) THEN st
  ELSE LET nameBytes == Utf8(fs[i].name)
           data == fs[i].data
       IN  LocalLoop(fs, i + 1,
             [entries |-> Append(st.entries,
                                 [name |-> nameBytes, data |-> data,
                                  offset |-> st.offset]),
              parts |-> st.parts \o localHeader(nameBytes, data)
                          \o nameBytes \o data,
              offset |-> st.offset + 30 + Len(nameBytes) + Len(data)])

\* The second loop from entry i on.
RECURSIVE CentralLoop(_, _)
CentralLoop(i, st) ==
  IF i > Len(st.entries) THEN st
  ELSE LET entry == st.entries[i]
       IN  CentralLoop(i + 1,
             [st EXCEPT !.parts = @ \o cdHeader(entry) \o entry.name,
                        !.offset = @ + 46 + Len(entry.name)])

\* A writeUInt16LE of buildZipBuffer is given a value out of range: a name
\* length (line 46) or the number of entries (line 85).
ThrowsRangeError(fs) ==
  \/ \E i \in DOMAIN fs : Utf8Length(fs[i].name) > U16Max
  \/ Len(fs) > U16Max

\* The Buffer buildZipBuffer returns when no write throws.
buildZipBuffer(fs) ==
  LET locals == LocalLoop(fs, 1,
                          [entries |-> <<>>, parts |-> <<>>, offset |-> 0])
      cdStart == locals.offset
      central == CentralLoop(1, locals)
      cdSize == central.offset - cdStart
  IN  central.parts \o eocd(Len(central.entries), cdSize, cdStart)

Build(fs) ==
  /\ zipPc = "idle"
  /\ files' = fs
  /\ IF ThrowsRangeError(fs)
     THEN zipPc' = "threw" /\ archive' = <<>>
     ELSE zipPc' = "returned" /\ archive' = buildZipBuffer(fs)
  /\ UNCHANGED beyondZip

ZipInit ==
  LifecycleIdle /\ AnalyzerIdle /\ ClientIdle /\ ResolverIdle /\ FormatIdle
  /\ ZipIdle /\ UploadIdle /\ HealthIdle /\ CrcIdle

ZipNext == zipPc = "idle" /\ \E fs \in FileSets : Build(fs)

ZipSpec == ZipInit /\ [][ZipNext]_vars

\* Buffer.readUInt16LE and readUInt32LE at the 0-based position at.
readUInt16LE(buf, at) == buf[at + 1] + 256 * buf[at + 2]
readUInt32LE(buf, at) ==
  buf[at + 1] + 256 * buf[at + 2] + 65536 * buf[at + 3]
    + 16777216 * buf[at + 4]

(***************************************************************************)
(* C21: whenever buildZipBuffer returns, the last 22 bytes of the buffer   *)
(* are an end-of-directory record: the end signature, both entry-count     *)
(* fields equal to the number of files, no comment; and for a non-empty    *)
(* Map the buffer starts with the local-header signature.                  *)
(***************************************************************************)
C21_EndRecordAndFirstSignature ==
  zipPc = "returned" =>
    LET end == Len(archive) - 22
    IN  /\ end >= 0
        /\ readUInt32LE(archive, end) = EndSignature
        /\ readUInt16LE(archive, end + 8) = Len(files)
        /\ readUInt16LE(archive, end + 10) = Len(files)
        /\ readUInt16LE(archive, end + 20) = 0
        /\ files # <<>> => readUInt32LE(archive, 0) = LocalSignature

C21_Witness ==
  /\ zipPc = "returned"
  /\ Len(files) = 2
  /\ readUInt16LE(archive, Len(archive) - 22 + 8) = 2
  /\ readUInt32LE(archive, 0) = LocalSignature

\* Where the i-th local header starts (0-based), found by walking the
\* buffer: each header's own name length and compressed size lead to the
\* next.
RECURSIVE EntryStart(_, _)
EntryStart(buf, i) ==
  IF i = 1 THEN 0
  ELSE LET prev == EntryStart(buf, i - 1)
       IN  prev + 30 + readUInt16LE(buf, prev + 26)
             + readUInt32LE(buf, prev + 18)

(***************************************************************************)
(* C22: whenever buildZipBuffer returns, every file's bytes stand          *)
(* unmodified as one run directly after its entry's 30-byte local header   *)
(* and name bytes, and that header declares compression method 0 and a     *)
(* compressed and an uncompressed size equal to the file's length.         *)
(***************************************************************************)
C22_StoredUnmodified ==
  zipPc = "returned" =>
    \A i \in DOMAIN files :
      LET at == EntryStart(archive, i)
          nameLength == Len(Utf8(files[i].name))
          dataStart == at + 30 + nameLength
          length == Len(files[i].data)
      IN  /\ dataStart + length <= Len(archive)
          /\ readUInt32LE(archive, at) = LocalSignature
          /\ readUInt16LE(archive, at + 8) = 0
          /\ readUInt32LE(archive, at + 18) = length
          /\ readUInt32LE(archive, at + 22) = length
          /\ readUInt16LE(archive, at + 26) = nameLength
          /\ SubSeq(archive, at + 31, dataStart) = Utf8(files[i].name)
          /\ SubSeq(archive, dataStart + 1, dataStart + length)
               = files[i].data

C22_Witness ==
  /\ zipPc = "returned"
  /\ Len(files) = 2
  /\ files[1].data = <<72, 105>>
  /\ files[2].data = <<255, 80, 75>>
  /\ LET at == EntryStart(archive, 2)
         dataStart == at + 30 + Len(Utf8(files[2].name))
     IN  /\ at > 0
         /\ SubSeq(archive, dataStart + 1, dataStart + 3) = <<255, 80, 75>>

(***************************************************************************)
(* C23: buildZipBuffer is total: every call returns a buffer, none throws, *)
(* whatever the number of entries and the lengths of names and contents;   *)
(* for the empty Map the buffer is exactly the 22-byte end record with     *)
(* directory size 0 and directory offset 0.                                *)
(***************************************************************************)
C23_BuildIsTotal ==
  zipPc # "idle" =>
    /\ zipPc = "returned"
    /\ files = <<>> =>
         /\ Len(archive) = 22
         /\ readUInt32LE(archive, 0) = EndSignature
         /\ readUInt32LE(archive, 12) = 0
         /\ readUInt32LE(archive, 16) = 0

\* Where the i-th central-directory record starts (0-based), found by
\* walking the directory from the offset the end record gives.
RECURSIVE CentralStart(_, _)
CentralStart(buf, i) ==
  IF i = 1 THEN readUInt32LE(buf, Len(buf) - 22 + 16)
  ELSE LET prev == CentralStart(buf, i - 1)
       IN  prev + 46 + readUInt16LE(buf, prev + 28)
             + readUInt16LE(buf, prev + 30) + readUInt16LE(buf, prev + 32)

\* 30 + name length + data length summed over the first n files, and
\* 46 + name length summed over them.
RECURSIVE LocalSizes(_, _)
LocalSizes(fs, n) ==
  IF n = 0 THEN 0
  ELSE LocalSizes(fs, n - 1) + 30 + Len(Utf8(fs[n].name)) + Len(fs[n].data)

RECURSIVE CentralSizes(_, _)
CentralSizes(fs, n) ==
  IF n = 0 THEN 0
  ELSE CentralSizes(fs, n - 1) + 46 + Len(Utf8(fs[n].name))

(***************************************************************************)
(* C36: whenever buildZipBuffer returns, the i-th central-directory record *)
(* carries the name, checksum and sizes of the i-th local header, which    *)
(* are those of the i-th file of the Map, and its offset field is the      *)
(* position where that local header starts: the sum of 30 + name length +  *)
(* data length over the earlier files.  The end record's directory offset  *)
(* is the size of all local sections, its directory size the sum of 46 +   *)
(* name length over all files, and the buffer is offset + size + 22 long.  *)
(***************************************************************************)
C36_DirectoryMatchesLocals ==
  zipPc = "returned" =>
    LET end == Len(archive) - 22
        cdStart == readUInt32LE(archive, end + 16)
        cdSize == readUInt32LE(archive, end + 12)
    IN  /\ cdStart = LocalSizes(files, Len(files))
        /\ cdSize = CentralSizes(files, Len(files))
        /\ Len(archive) = cdStart + cdSize + 22
        /\ \A i \in DOMAIN files :
             LET at == EntryStart(archive, i)
                 cd == CentralStart(archive, i)
                 n == readUInt16LE(archive, cd + 28)
             IN  /\ cd + 46 + n <= end
                 /\ readUInt32LE(archive, cd) = CentralSignature
                 /\ n = readUInt16LE(archive, at + 26)
                 /\ SubSeq(archive, cd + 47, cd + 46 + n)
                      = SubSeq(archive, at + 31, at + 30 + n)
                 /\ SubSeq(archive, cd + 47, cd + 46 + n)
                      = Utf8(files[i].name)
                 /\ SubSeq(archive, cd + 17, cd + 20)
                      = SubSeq(archive, at + 15, at + 18)
                 /\ readUInt32LE(archive, cd + 20)
                      = readUInt32LE(archive, at + 18)
                 /\ readUInt32LE(archive, cd + 24)
                      = readUInt32LE(archive, at + 22)
                 /\ readUInt32LE(archive, cd + 42) = at
                 /\ at = LocalSizes(files, i - 1)

\* Two files, the first with content: the second central record points past
\* the first local section, and the directory starts after both.
C36_Witness ==
  /\ zipPc = "returned"
  /\ Len(files) = 2
  /\ files[1].data = <<72, 105>>
  /\ files[1].name # files[2].name
  /\ LET cd == CentralStart(archive, 2)
     IN  /\ readUInt32LE(archive, cd + 42) = 32 + Len(Utf8(files[1].name))
         /\ readUInt32LE(archive, cd + 42) = EntryStart(archive, 2)
         /\ cd > readUInt32LE(archive, Len(archive) - 22 + 16)

(***************************************************************************)
(* scanner/client.ts: the request runSkillScannerApi builds, lines 12-90.  *)
(* A string is a sequence of characters; a name the code writes as a       *)
(* literal ("use_llm", "true") is one token, unchanged by the encoding.    *)
(* The multipart body is its sequence of parts: the boundary is drawn from *)
(* the clock and Math.random() after the settings are read, so no value    *)
(* contains it.                                                            *)
(***************************************************************************)
\* process.env: an unset variable and an empty one are both falsy.
LlmEnvs ==
  [key : {<<>>, <<"k">>},
   model : {<<>>, <<"m">>, <<"a", " ", "&">>},
   provider : {<<>>, <<"p">>, <<"x", "=", "+", "%">>}]

\* The Maps uploaded: empty, or one file.
UploadFileSets == {fs \in FileSets : Len(fs) <= 1}

\* queryParams after the set calls of lines 13-27, ignoring the model and
\* provider settings' dependence on the credential.
queryParams_NoKeyCheck(env) ==
  <<[name |-> <<"use_behavioral">>, value |-> <<"true">>]>>
    \o (IF env.key # <<>>
        THEN <<[name |-> <<"use_llm">>, value |-> <<"true">>]>> ELSE <<>>)
    \o (IF env.model # <<>>
        THEN <<[name |-> <<"llm_model">>, value |-> env.model]>>
        ELSE <<>>)
    \o (IF env.provider # <<>>
        THEN <<[name |-> <<"llm_provider">>, value |-> env.provider]>>
        ELSE <<>>)

\* queryParams after the set calls of lines 13-27.
queryParams(env) ==
  <<[name |-> <<"use_behavioral">>, value |-> <<"true">>]>>
    \o (IF env.key # <<>>
        THEN <<[name |-> <<"use_llm">>, value |-> <<"true">>]>>
               \o (IF env.model # <<>>
                   THEN <<[name |-> <<"llm_model">>, value |-> env.model]>>
                   ELSE <<>>)
               \o (IF env.provider # <<>>
                   THEN <<[name |-> <<"llm_provider">>,
                           value |-> env.provider]>>
                   ELSE <<>>)
        ELSE <<>>)

\* URLSearchParams serialisation of one character.
EncodeChar(ch) ==
  CASE ch = " " -> <<"+">>
    [] ch = "&" -> <<"%", "2", "6">>
    [] ch = "=" -> <<"%", "3", "D">>
    [] ch = "+" -> <<"%", "2", "B">>
    [] ch = "%" -> <<"%", "2", "5">>
    [] OTHER -> <<ch>>

RECURSIVE Encode(_)
Encode(text) ==
  IF text = <<>> THEN <<>>
  ELSE EncodeChar(Head(text)) \o Encode(Tail(text))

\* queryParams.toString(), from the i-th pair on.
RECURSIVE toString(_, _)
toString(params, i) ==
  IF i > Len(params) THEN <<>>
  ELSE (IF i > 1 THEN <<"&">> ELSE <<>>)
         \o Encode(params[i].name) \o <<"=">> \o Encode(params[i].value)
         \o toString(params, i + 1)

\* The fields appendFormField adds, lines 52-61.
formFields(env) ==
  <<[kind |-> "field", name |-> <<"use_behavioral">>,
     value |-> <<"true">>]>>
    \o (IF env.key # <<>>
        THEN <<[kind |-> "field", name |-> <<"use_llm">>,
                value |-> <<"true">>]>>
               \o (IF env.model # <<>>
                   THEN <<[kind |-> "field", name |-> <<"llm_model">>,
                           value |-> env.model]>>
                   ELSE <<>>)
               \o (IF env.provider # <<>>
                   THEN <<[kind |-> "field", name |-> <<"llm_provider">>,
                           value |-> env.provider]>>
                   ELSE <<>>)
        ELSE <<>>)

\* The file part, lines 64-70.
filePart(zipBuffer) ==
  [kind |-> "file", name |-> <<"file">>, filename |-> "skill.zip",
   contentType |-> "application/zip", content |-> zipBuffer]

\* runSkillScannerApi up to its await of fetch: buildZipBuffer throws, or
\* the request is handed to fetch.
BuildRequest(env, fs) ==
  /\ uploadPc = "idle"
  /\ llmEnv' = env
  /\ skillFiles' = fs
  /\ IF ThrowsRangeError(fs)
     THEN /\ uploadPc' = "threw"
          /\ request' = NoRequest
     ELSE /\ uploadPc' = "fetching"
          /\ request' =
               [method |-> "POST", path |-> "/scan-upload",
                query |-> toString(queryParams(env), 1),
                contentType |-> "multipart/form-data",
                body |-> formFields(env) \o <<filePart(buildZipBuffer(fs))>>]
  /\ UNCHANGED beyondUpload

UploadInit ==
  LifecycleIdle /\ AnalyzerIdle /\ ClientIdle /\ ResolverIdle /\ FormatIdle
  /\ ZipIdle /\ UploadIdle /\ HealthIdle /\ CrcIdle

UploadNext ==
  uploadPc = "idle"
    /\ \E env \in LlmEnvs, fs \in UploadFileSets : BuildRequest(env, fs)

UploadSpec == UploadInit /\ [][UploadNext]_vars

\* The character a receiver decodes "%" and two hexadecimal digits to.
Unescape(high, low) ==
  CASE <<high, low>> = <<"2", "6">> -> "&"
    [] <<high, low>> = <<"3", "D">> -> "="
    [] <<high, low>> = <<"2", "B">> -> "+"
    [] <<high, low>> = <<"2", "5">> -> "%"
    [] <<high, low>> = <<"2", "0">> -> " "

\* A receiver's decoding of one query-string component.
RECURSIVE Decode(_)
Decode(text) ==
  IF text = <<>> THEN <<>>
  ELSE IF Head(text) = "+" THEN <<" ">> \o Decode(Tail(text))
  ELSE IF Head(text) = "%" /\ Len(text) >= 3
       THEN <<Unescape(text[2], text[3])>>
              \o Decode(SubSeq(text, 4, Len(text)))
  ELSE <<Head(text)>> \o Decode(Tail(text))

\* Position of the first sep in text, Len(text) + 1 if there is none.
FirstOf(text, sep) ==
  IF \E i \in DOMAIN text : text[i] = sep
  THEN CHOOSE i \in DOMAIN text :
         text[i] = sep /\ \A j \in 1..(i - 1) : text[j] # sep
  ELSE Len(text) + 1

\* A receiver's reading of a query string: the pairs between "&", each
\* split at its first "=".
RECURSIVE ParseQuery(_)
ParseQuery(text) ==
  IF text = <<>> THEN <<>>
  ELSE LET amp == FirstOf(text, "&")
           pair == SubSeq(text, 1, amp - 1)
           eq == FirstOf(pair, "=")
       IN  <<[name |-> Decode(SubSeq(pair, 1, eq - 1)),
              value |-> Decode(SubSeq(pair, eq + 1, Len(pair)))]>>
             \o ParseQuery(SubSeq(text, amp + 1, Len(text)))

\* The flags a receiver finds in the query string and in the form fields.
QueryFlags == ParseQuery(request.query)
FormFlags ==
  LET fields == SelectSeq(request.body, LAMBDA part : part.kind = "field")
  IN  [i \in DOMAIN fields |->
         [name |-> fields[i].name, value |-> fields[i].value]]

FlagNames(flags) == {flags[i].name : i \in DOMAIN flags}

(***************************************************************************)
(* C24: every upload request carries use_behavioral=true; use_llm,         *)
(* llm_model and llm_provider appear only when the LLM credential is set;  *)
(* the multipart form fields are exactly the query-string flags with the   *)
(* same values, and they are followed by a single part named "file" of     *)
(* type application/zip that holds the archive bytes.                      *)
(***************************************************************************)
C24_FormMirrorsQuery ==
  uploadPc = "fetching" =>
    /\ [name |-> <<"use_behavioral">>, value |-> <<"true">>]
         \in {QueryFlags[i] : i \in DOMAIN QueryFlags}
    /\ FlagNames(QueryFlags)
         \cap {<<"use_llm">>, <<"llm_model">>, <<"llm_provider">>} # {}
         => llmEnv.key # <<>>
    /\ FormFlags = QueryFlags
    /\ LET n == Len(request.body)
       IN  /\ n = Len(QueryFlags) + 1
           /\ \A i \in 1..(n - 1) : request.body[i].kind = "field"
           /\ request.body[n].kind = "file"
           /\ request.body[n].name = <<"file">>
           /\ request.body[n].contentType = "application/zip"
           /\ request.body[n].content = buildZipBuffer(skillFiles)
           /\ \A i \in 1..(n - 1) : request.body[i].name # <<"file">>

C24_Witness ==
  /\ uploadPc = "fetching"
  /\ llmEnv.key # <<>>
  /\ llmEnv.model = <<"a", " ", "&">>
  /\ llmEnv.provider = <<"x", "=", "+", "%">>
  /\ Len(request.body) = 5
  /\ Len(skillFiles) = 1
  /\ \E i \in DOMAIN request.query : request.query[i] = "%"
  /\ QueryFlags[4] = [name |-> <<"llm_provider">>,
                      value |-> <<"x", "=", "+", "%">>]

(***************************************************************************)
(* C25: the llm_provider query parameter is sent only if                   *)
(* SKILL_SCANNER_LLM_PROVIDER is set and no model override                 *)
(* (SKILL_SCANNER_LLM_MODEL) is configured.                                *)
(***************************************************************************)
C25_ProviderOnlyWithoutModel ==
  (uploadPc = "fetching" /\ <<"llm_provider">> \in FlagNames(QueryFlags))
    => (llmEnv.provider # <<>> /\ llmEnv.model = <<>>)
(***************************************************************************)
(* scanner/lifecycle.ts: isApiHealthy.  One call: the abort timer is armed  *)
(* for 3 s, GET <apiUrl without one trailing slash>/health is issued, and   *)
(* the call resolves when fetch settles: with a Response, with a transport *)
(* error, or with the AbortError that follows the timer.                   *)
(***************************************************************************)
AbortAfterMs == 3000

\* URLs as token sequences, "/" being a token of its own.
Urls ==
  { <<"http://localhost:8000">>,
    <<"http://localhost:8000", "/">>,
    <<"http://scanner.local", "/", "api", "/">> }

\* Status codes a Response can carry, on both sides of the 2xx range.
Statuses == {199, 200, 201, 204, 299, 300, 304, 400, 404, 500, 503}

\* apiUrl.replace(/\/$/, "")
StripSlash(u) ==
  IF Len(u) > 0 /\ u[Len(u)] = "/" THEN SubSeq(u, 1, Len(u) - 1) ELSE u

\* res.ok for every Response alike.
resOk_AnyStatus(res) == TRUE

\* res.ok: the status is in the range 200-299.
resOk(res) == res.status >= 200 /\ res.status <= 299

BoolText(b) == IF b THEN "true" ELSE "false"

\* isApiHealthy(u) up to its await: timer armed, fetch issued.
CallHealth(u) ==
  /\ healthPc = "idle"
  /\ healthPc' = "fetching"
  /\ checkUrl' = u
  /\ timeoutId' = "armed"
  /\ fetchUrl' = StripSlash(u) \o <<"/", "health">>
  /\ UNCHANGED <<settled, elapsedMs, healthy, beyondHealth>>

\* Time passes while the fetch is pending and the timer has not come due.
Tick(dt) ==
  /\ healthPc = "fetching"
  /\ timeoutId = "armed"
  /\ elapsedMs + dt <= AbortAfterMs
  /\ elapsedMs' = elapsedMs + dt
  /\ UNCHANGED <<healthPc, checkUrl, fetchUrl, settled, timeoutId, healthy,
                 beyondHealth>>

\* fetch resolves with a Response: return res.ok, finally clearTimeout.
Responds(status) ==
  /\ healthPc = "fetching"
  /\ timeoutId = "armed"
  /\ settled' = [kind |-> "response", status |-> status]
  /\ healthy' = BoolText(resOk(settled'))
  /\ timeoutId' = "cleared"
  /\ healthPc' = "returned"
  /\ UNCHANGED <<checkUrl, fetchUrl, elapsedMs, beyondHealth>>

\* fetch rejects (connection refused, reset, DNS, a URL it cannot parse): the
\* catch returns false, finally clearTimeout.
Rejects ==
  /\ healthPc = "fetching"
  /\ timeoutId = "armed"
  /\ settled' = [kind |-> "error", status |-> 0]
  /\ healthy' = "false"
  /\ timeoutId' = "cleared"
  /\ healthPc' = "returned"
  /\ UNCHANGED <<checkUrl, fetchUrl, elapsedMs, beyondHealth>>

\* The timer comes due: controller.abort().
TimerFires ==
  /\ healthPc = "fetching"
  /\ timeoutId = "armed"
  /\ elapsedMs = AbortAfterMs
  /\ timeoutId' = "fired"
  /\ UNCHANGED <<healthPc, checkUrl, fetchUrl, settled, elapsedMs, healthy,
                 beyondHealth>>

\* The aborted fetch rejects with an AbortError: the catch returns false.
Aborted ==
  /\ healthPc = "fetching"
  /\ timeoutId = "fired"
  /\ settled' = [kind |-> "abort", status |-> 0]
  /\ healthy' = "false"
  /\ healthPc' = "returned"
  /\ UNCHANGED <<checkUrl, fetchUrl, elapsedMs, timeoutId, beyondHealth>>

HealthInit ==
  LifecycleIdle /\ AnalyzerIdle /\ ClientIdle /\ ResolverIdle /\ FormatIdle
  /\ ZipIdle /\ UploadIdle /\ HealthIdle /\ CrcIdle

HealthNext ==
  \/ \E u \in Urls : CallHealth(u)
  \/ \E dt \in {500, 1000} : Tick(dt)
  \/ \E status \in Statuses : Responds(status)
  \/ Rejects
  \/ TimerFires
  \/ Aborted

HealthSpec == HealthInit /\ [][HealthNext]_vars

(***************************************************************************)
(* C35: a call of isApiHealthy never throws, and once it has returned it   *)
(* returned true exactly when the GET of <base>/health was answered with a *)
(* status in 200..299; a response with another status, a transport error   *)
(* and the abort after 3 s all gave false.                                 *)
(***************************************************************************)
C35_HealthyIffSuccessStatus ==
  /\ healthPc # "threw"
  /\ healthPc = "returned" =>
       /\ healthy \in {"true", "false"}
       /\ Len(fetchUrl) >= 3
       /\ SubSeq(fetchUrl, Len(fetchUrl) - 1, Len(fetchUrl))
            = <<"/", "health">>
       /\ fetchUrl[Len(fetchUrl) - 2] # "/"
       /\ (healthy = "true") <=>
            (settled.kind = "response" /\ settled.status \in 200..299)
       /\ settled.kind = "abort" => elapsedMs = AbortAfterMs

\* A URL given with a trailing slash was answered 204 a second and a half
\* into the call, and the call returned true.
C35_Witness ==
  /\ healthPc = "returned"
  /\ checkUrl[Len(checkUrl)] = "/"
  /\ elapsedMs = 1500
  /\ settled = [kind |-> "response", status |-> 204]
  /\ healthy = "true"

(***************************************************************************)
(* zip.ts: crc32 on its own.  One call with a Buffer of up to MaxBytes     *)
(* bytes, or with the nine ASCII digits "123456789".                       *)
(***************************************************************************)
MaxBytes == 3

CheckString == <<49, 50, 51, 52, 53, 54, 55, 56, 57>>

CrcInputs ==
  UNION {[1..k -> {0, 1, 97, 128, 255}] : k \in 0..MaxBytes}
    \cup {CheckString}

Checksum(buf) ==
  /\ crcPc = "idle"
  /\ crcPc' = "returned"
  /\ crcInput' = buf
  /\ crcValue' = crc32(buf)
  /\ UNCHANGED beyondCrc

CrcInit ==
  LifecycleIdle /\ AnalyzerIdle /\ ClientIdle /\ ResolverIdle /\ FormatIdle
  /\ ZipIdle /\ UploadIdle /\ HealthIdle /\ CrcIdle

CrcNext == crcPc = "idle" /\ \E buf \in CrcInputs : Checksum(buf)

CrcSpec == CrcInit /\ [][CrcNext]_vars

\* The reflected CRC-32 by its definition, bit by bit and without a table:
\* the register starts all ones; each byte is xored into its low end and
\* the register is shifted right eight times, the polynomial EDB88320 being
\* xored in whenever a 1 is shifted out; the result is the complement.
RECURSIVE ShiftOut(_, _)
ShiftOut(reg, k) ==
  IF k = 0 THEN reg
  ELSE LET shifted == [i \in Bits |-> IF i < 31 THEN reg[i + 1] ELSE 0]
           poly == [i \in Bits |->
                      IF i \in {5, 8, 9, 15, 19, 20, 21, 23, 24, 26, 27,
                                29, 30, 31}
                      THEN 1 ELSE 0]
       IN  IF reg[0] = 1
           THEN ShiftOut(StoredFrom([i \in Bits |->
                                       (shifted[i] + poly[i]) % 2], 0),
                         k - 1)
           ELSE ShiftOut(StoredFrom(shifted, 0), k - 1)

RECURSIVE Register(_, _)
Register(buf, n) ==
  IF n = 0 THEN [i \in Bits |-> 1]
  ELSE LET before == Register(buf, n - 1)
           withByte == [i \in Bits |->
                          IF i < 8
                          THEN (before[i] + ((buf[n] \div 2^i) % 2)) % 2
                          ELSE before[i]]
       IN  ShiftOut(withByte, 8)

ReferenceCrc(buf) == [i \in Bits |-> 1 - Register(buf, Len(buf))[i]]

(***************************************************************************)
(* C37: the lookup table has 256 entries; whenever crc32 returns, the      *)
(* value is not negative and its 32 bits are the standard reflected CRC-32 *)
(* of the bytes passed, so a value in 0..2^32-1; the checksum of the empty *)
(* Buffer is 0 and that of "123456789" is CBF43926.                        *)
(***************************************************************************)
C37_StandardUnsignedCrc ==
  /\ DOMAIN crc32Table = 0..255
  /\ crcPc = "returned" =>
       /\ ~(crcValue.signed /\ crcValue.bits[31] = 1)
       /\ DOMAIN crcValue.bits = Bits
       /\ crcValue.bits = ReferenceCrc(crcInput)
       /\ crcInput = <<>> => crcValue.bits = [i \in Bits |-> 0]
       /\ crcInput = CheckString
            => writeWordLE(crcValue.bits) = <<38, 57, 244, 203>>

\* "123456789" gave CBF43926: bit 31 is set, and the value is unsigned.
C37_Witness ==
  /\ crcPc = "returned"
  /\ crcInput = CheckString
  /\ crcValue.bits[31] = 1
  /\ ~crcValue.signed
  /\ writeWordLE(crcValue.bits) = <<38, 57, 244, 203>>

====
